---- MODULE Spec2Model ----
(***************************************************************************)
(* Model of geomagio: the gap engine and get_traces of                     *)
(* TimeseriesUtility.py, the update controller of Controller.py, and the   *)
(* IAF parser and writer of iaf/IAFParser.py and iaf/IAFWriter.py, and     *)
(* the channel reconciliation of iaf/IAFFactory.py.                        *)
(*                                                                         *)
(* Conventions.  Times are integers (seconds).  A sample is <<>> (NaN,     *)
(* missing) or <<v>> (the value v).  A gap is the Python list              *)
(* [start, end, next sample]; Python's gap[0], gap[1], gap[2] are the      *)
(* TLA+ gap[1], gap[2], gap[3].  Python's None is <<>>.                    *)
(***************************************************************************)
EXTENDS Integers, Sequences, FiniteSets, TLC

\* ------------------------------------------------------------------ bounds
\* longest trace of the gap engine's specification
MaxLen == 6
\* the channels of a stream in the gap engine's specification
GapChannels == {"H", "Z"}
\* (starttime, delta) of the traces of the gap engine's specification
TraceTimings == {<<10, 5>>, <<0, 1>>}

\* slots of the source and target stores' modelled timeline
NumSlots == 3

VARIABLES
    stream,       \* gap engine: channel -> trace [data, starttime, delta]
    gaps,         \* gap engine: channel -> list of gaps (the dictionary, mutable)
    merged_gaps,  \* gap engine: the list get_merged_gaps returned
    gpc,          \* gap engine: "start", "gaps" (dictionary built), "merged"
    srcData,      \* input store: slot -> the input channel has a sample there
    srcBefore,    \* input store: it has a sample at every time before slot 0
    tgtData,      \* output store: channel -> slot -> has a sample there
    options,      \* the options the controller was started with
    pc,           \* controller: "idle", "update", "done", "raised"
    frames,       \* controller: the run_as_update calls in progress, outermost first
    calls,        \* history: [starttime, endtime, depth] of every run_as_update call
    returned,     \* history: the run_as_update calls that returned, in order
    runs,         \* history: [starttime, endtime] of every run() call
    puts,         \* the put_timeseries calls the output store received
    wTimeseries,  \* IAF writer: the stream passed to write [stats, data]
    wChannels,    \* IAF writer: the channels argument of write (None or a list)
    nanCast,      \* the result this build gives for casting NaN to an integer
    wOut,         \* IAF writer: the records written to the file object, in order
    writer,       \* the IAFWriter object [headers, data]
    wpc,          \* IAF writer: "start", "loop", "done", "raised", "read"
    wday,         \* IAF writer: [day, num_of_days, channels] of the loop of write
    rawData,      \* IAF parser: the data argument of parse [records, trailing]
    pInterval,    \* IAF parser: the interval argument of parse
    parser,       \* the IAFParser object [headers, metadata, channels, data, ...]
    ppc,          \* IAF parser: "start", "loop", "done"
    pday,         \* IAF parser: [day, days] of the loop of parse
    tInput,       \* get_traces: its arguments [trace, interval]
    tResult,      \* get_traces: the list returned
    tpc,          \* get_traces: "start", "done"
    gfArgs,       \* _clean_G_F_channels: [version, channels, version1_flag, stream]
    gfStream,     \* _clean_G_F_channels: the stream, a list of traces, as it is now
    gfpc          \* _clean_G_F_channels: "start", "done", "raised"

gapVars == <<stream, gaps, merged_gaps, gpc>>
ctlVars == <<srcData, srcBefore, tgtData, options, pc, frames, calls, returned,
            runs, puts>>
iafVars == <<wTimeseries, wChannels, nanCast, wOut, writer, wpc, wday,
            rawData, pInterval, parser, ppc, pday, tInput, tResult, tpc,
            gfArgs, gfStream, gfpc>>
vars == <<stream, gaps, merged_gaps, gpc,
          srcData, srcBefore, tgtData, options, pc, frames, calls, returned,
          runs, puts,
          wTimeseries, wChannels, nanCast, wOut, writer, wpc, wday,
          rawData, pInterval, parser, ppc, pday, tInput, tResult, tpc,
          gfArgs, gfStream, gfpc>>

\* ------------------------------------------------------------ numpy / misc
NaN == <<>>
None == <<>>
isnan(x) == x = NaN

Max(a, b) == IF a >= b THEN a ELSE b

\* ---------------------------------------------------------- get_trace_gaps
\* The for loop of get_trace_gaps from Python index i on; gap is None or the
\* open gap [start]; at i = length the "gap at end" check runs.
RECURSIVE TraceGapsLoop(_, _, _, _)
TraceGapsLoop(trace, i, gapList, gap) ==
    LET data == trace.data
        starttime == trace.starttime
        delta == trace.delta
        length == Len(data)
    IN  IF i >= length
        THEN IF gap # None
             THEN Append(gapList, gap \o <<starttime + (length - 1) * delta,
                                           starttime + length * delta>>)
             ELSE gapList
        ELSE IF isnan(data[i + 1])
             THEN IF gap = None
                  THEN TraceGapsLoop(trace, i + 1, gapList,
                                     <<starttime + i * delta>>)
                  ELSE TraceGapsLoop(trace, i + 1, gapList, gap)
             ELSE IF gap # None
                  THEN TraceGapsLoop(trace, i + 1,
                           Append(gapList, gap \o <<starttime + (i - 1) * delta,
                                                    starttime + i * delta>>),
                           None)
                  ELSE TraceGapsLoop(trace, i + 1, gapList, gap)

\* get_trace_gaps without the check for a gap at the end of the trace
RECURSIVE TraceGapsNoTail(_, _, _, _)
TraceGapsNoTail(trace, i, gapList, gap) ==
    IF i >= Len(trace.data)
    THEN gapList
    ELSE IF isnan(trace.data[i + 1])
         THEN IF gap = None
              THEN TraceGapsNoTail(trace, i + 1, gapList,
                                   <<trace.starttime + i * trace.delta>>)
              ELSE TraceGapsNoTail(trace, i + 1, gapList, gap)
         ELSE IF gap # None
              THEN TraceGapsNoTail(trace, i + 1,
                       Append(gapList,
                              gap \o <<trace.starttime + (i - 1) * trace.delta,
                                       trace.starttime + i * trace.delta>>),
                       None)
              ELSE TraceGapsNoTail(trace, i + 1, gapList, gap)

get_trace_gaps_no_tail(trace) == TraceGapsNoTail(trace, 0, <<>>, None)

get_trace_gaps(trace) == TraceGapsLoop(trace, 0, <<>>, None)

\* get_stream_gaps: the dictionary channel -> get_trace_gaps(trace); a stream
\* is modelled as a function from its traces' channels to the traces.
get_stream_gaps(st) == [c \in DOMAIN st |-> get_trace_gaps(st[c])]

\* --------------------------------------------------------- get_merged_gaps
\* The gap lists are Python lists, shared by reference between the input
\* dictionary, sorted_gaps and merged_gaps.  A reference is <<key, index>>
\* into the dictionary d; d itself plays the heap.
Deref(d, ref) == d[ref[1]][ref[2]]

\* merged_gaps.extend(gaps[key]) for key in gaps, keys in iteration order
RECURSIVE FlattenRefs(_, _)
FlattenRefs(d, keyOrder) ==
    IF keyOrder = <<>> THEN <<>>
    ELSE [i \in 1..Len(d[Head(keyOrder)]) |-> <<Head(keyOrder), i>>]
         \o FlattenRefs(d, Tail(keyOrder))

\* sorted(merged_gaps, key=lambda gap: gap[0]): a stable sort, as insertion
\* of each element after every element whose key is <= its own.
RECURSIVE InsertSorted(_, _, _)
InsertSorted(d, sortedRefs, ref) ==
    IF sortedRefs = <<>> THEN <<ref>>
    ELSE IF Deref(d, Head(sortedRefs))[1] <= Deref(d, ref)[1]
         THEN <<Head(sortedRefs)>> \o InsertSorted(d, Tail(sortedRefs), ref)
         ELSE <<ref>> \o sortedRefs

RECURSIVE SortRefs(_, _, _)
SortRefs(d, refs, acc) ==
    IF refs = <<>> THEN acc
    ELSE SortRefs(d, Tail(refs), InsertSorted(d, acc, Head(refs)))

sorted_by_start(d, refs) == SortRefs(d, refs, <<>>)

\* merged_gap[1] = gap[1]; merged_gap[2] = gap[2], on the shared list object
ExtendGap(d, mref, gref) ==
    [d EXCEPT ![mref[1]][mref[2]] =
        <<@[1], Deref(d, gref)[2], Deref(d, gref)[3]>>]

\* The sweep "for gap in sorted_gaps"; returns the heap and the references
\* held by merged_gaps after the loop and the final append.
RECURSIVE MergeLoop(_, _, _, _)
MergeLoop(d, sortedRefs, mergedRefs, merged_gap) ==
    IF sortedRefs = <<>>
    THEN [heap |-> d,
          refs |-> IF merged_gap # None THEN Append(mergedRefs, merged_gap)
                   ELSE mergedRefs]
    ELSE LET gap == Head(sortedRefs)
             rest == Tail(sortedRefs)
         IN  IF merged_gap = None
             THEN MergeLoop(d, rest, mergedRefs, gap)
             ELSE IF Deref(d, gap)[1] > Deref(d, merged_gap)[3]
             THEN MergeLoop(d, rest, Append(mergedRefs, merged_gap), gap)
             ELSE IF Deref(d, gap)[1] <= Deref(d, merged_gap)[3]
             THEN IF Deref(d, gap)[2] > Deref(d, merged_gap)[2]
                  THEN MergeLoop(ExtendGap(d, merged_gap, gap), rest,
                                 mergedRefs, merged_gap)
                  ELSE MergeLoop(d, rest, mergedRefs, merged_gap)
             ELSE MergeLoop(d, rest, mergedRefs, merged_gap)

\* The sweep that extends the merged gap by every folded gap, whether or not
\* the folded gap ends later.
RECURSIVE MergeLoopAlwaysExtend(_, _, _, _)
MergeLoopAlwaysExtend(d, sortedRefs, mergedRefs, merged_gap) ==
    IF sortedRefs = <<>>
    THEN [heap |-> d,
          refs |-> IF merged_gap # None THEN Append(mergedRefs, merged_gap)
                   ELSE mergedRefs]
    ELSE LET gap == Head(sortedRefs)
             rest == Tail(sortedRefs)
         IN  IF merged_gap = None
             THEN MergeLoopAlwaysExtend(d, rest, mergedRefs, gap)
             ELSE IF Deref(d, gap)[1] > Deref(d, merged_gap)[3]
             THEN MergeLoopAlwaysExtend(d, rest,
                                        Append(mergedRefs, merged_gap), gap)
             ELSE MergeLoopAlwaysExtend(ExtendGap(d, merged_gap, gap), rest,
                                        mergedRefs, merged_gap)

\* The sweep that folds a gap only when it starts strictly before the
\* next-sample marker.
RECURSIVE MergeLoopStrict(_, _, _, _)
MergeLoopStrict(d, sortedRefs, mergedRefs, merged_gap) ==
    IF sortedRefs = <<>>
    THEN [heap |-> d,
          refs |-> IF merged_gap # None THEN Append(mergedRefs, merged_gap)
                   ELSE mergedRefs]
    ELSE LET gap == Head(sortedRefs)
             rest == Tail(sortedRefs)
         IN  IF merged_gap = None
             THEN MergeLoopStrict(d, rest, mergedRefs, gap)
             ELSE IF Deref(d, gap)[1] >= Deref(d, merged_gap)[3]
             THEN MergeLoopStrict(d, rest, Append(mergedRefs, merged_gap), gap)
             ELSE IF Deref(d, gap)[2] > Deref(d, merged_gap)[2]
                  THEN MergeLoopStrict(ExtendGap(d, merged_gap, gap), rest,
                                       mergedRefs, merged_gap)
                  ELSE MergeLoopStrict(d, rest, mergedRefs, merged_gap)

\* get_merged_gaps(gaps), the dictionary iterated in keyOrder: the returned
\* list (by value) and the dictionary as the call leaves it.
MergedGapsResult(d, keyOrder, loop) ==
    [merged |-> [k \in 1..Len(loop.refs) |-> Deref(loop.heap, loop.refs[k])],
     gaps |-> loop.heap]

get_merged_gaps_always_extend(d, keyOrder) ==
    MergedGapsResult(d, keyOrder,
        MergeLoopAlwaysExtend(d, sorted_by_start(d, FlattenRefs(d, keyOrder)),
                              <<>>, None))

get_merged_gaps_strict(d, keyOrder) ==
    MergedGapsResult(d, keyOrder,
        MergeLoopStrict(d, sorted_by_start(d, FlattenRefs(d, keyOrder)),
                        <<>>, None))

get_merged_gaps(d, keyOrder) ==
    MergedGapsResult(d, keyOrder,
        MergeLoop(d, sorted_by_start(d, FlattenRefs(d, keyOrder)),
                  <<>>, None))

\* ------------------------------------------- the gap engine's specification
\* The IAF writer's, the IAF parser's, get_traces' and
\* _clean_G_F_channels' variables while they do not run.
WriterUnused ==
    /\ wTimeseries = <<>>
    /\ wChannels = <<>>
    /\ nanCast = <<>>
    /\ wOut = <<>>
    /\ writer = <<>>
    /\ wpc = "unused"
    /\ wday = <<>>

ParserUnused ==
    /\ rawData = <<>>
    /\ pInterval = ""
    /\ parser = <<>>
    /\ ppc = "unused"
    /\ pday = <<>>

TracesUnused ==
    /\ tInput = <<>>
    /\ tResult = <<>>
    /\ tpc = "unused"

CleanUnused ==
    /\ gfArgs = <<>>
    /\ gfStream = <<>>
    /\ gfpc = "unused"

IafUnused == WriterUnused /\ ParserUnused /\ TracesUnused /\ CleanUnused

\* The controller's variables while only the gap engine runs.
CtlUnused ==
    /\ srcData = <<>>
    /\ srcBefore = FALSE
    /\ tgtData = <<>>
    /\ options = <<>>
    /\ pc = "unused"
    /\ frames = <<>>
    /\ calls = <<>>
    /\ returned = <<>>
    /\ runs = <<>>
    /\ puts = <<>>

\* The orders in which "for key in gaps" may iterate a dictionary of keys K.
KeyOrders(K) ==
    {o \in [1..Cardinality(K) -> K] : \A i, j \in DOMAIN o : i # j => o[i] # o[j]}

Traces(timing) ==
    UNION {[data : [1..n -> {NaN, <<1>>}], starttime : {timing[1]},
            delta : {timing[2]}] : n \in 0..MaxLen}

\* A stream holds one trace per channel, all of one fetch: same start time,
\* sampling period and length.
GapInit ==
    /\ \E timing \in TraceTimings :
         stream \in {st \in [GapChannels -> Traces(timing)] :
                        \A c1, c2 \in GapChannels :
                            Len(st[c1].data) = Len(st[c2].data)}
    /\ gaps = <<>>
    /\ merged_gaps = <<>>
    /\ gpc = "start"
    /\ CtlUnused
    /\ IafUnused

GetStreamGaps ==
    /\ gpc = "start"
    /\ gaps' = get_stream_gaps(stream)
    /\ gpc' = "gaps"
    /\ UNCHANGED <<stream, merged_gaps>>
    /\ UNCHANGED ctlVars
    /\ UNCHANGED iafVars

GetMergedGaps ==
    /\ gpc = "gaps"
    /\ \E keyOrder \in KeyOrders(DOMAIN gaps) :
         LET r == get_merged_gaps(gaps, keyOrder)
         IN  /\ merged_gaps' = r.merged
             /\ gaps' = r.gaps
    /\ gpc' = "merged"
    /\ UNCHANGED stream
    /\ UNCHANGED ctlVars
    /\ UNCHANGED iafVars

GapNext == GetStreamGaps \/ GetMergedGaps

SpecGaps == GapInit /\ [][GapNext]_vars

\* --------------------------------------------------------------- Controller
Range(seq) == {seq[i] : i \in DOMAIN seq}

\* TUtils.get_seconds_of_interval(options.interval): one sampling interval,
\* in seconds.
get_seconds_of_interval(interval) ==
    CASE interval = "second" -> 1
      [] interval = "minute" -> 60
      [] interval = "hourly" -> 3600
      [] OTHER -> 86400

\* self._algorithm.get_input_channels() and .get_output_channels()
AlgInputChannels == <<"H">>
AlgOutputChannels == <<"X", "Y">>

\* The time of slot k of the stores' timeline (minute data).
SlotTime(k) == k * get_seconds_of_interval("minute")
SlotOf(t) == t \div get_seconds_of_interval("minute")

\* The input store holds a sample of channel c at time t.
SourceHas(c, t) ==
    IF SlotOf(t) \in 0..(NumSlots - 1)
    THEN srcData[SlotOf(t)]
    ELSE SlotOf(t) < 0 /\ srcBefore

\* The output store holds a sample of channel c at time t (it holds nothing
\* outside its timeline).
TargetHas(c, t) ==
    /\ SlotOf(t) \in 0..(NumSlots - 1)
    /\ c \in DOMAIN tgtData
    /\ tgtData[c][SlotOf(t)]

\* self._inputFactory reads the input store, self._outputFactory the output
\* store.
FactoryHas(factory, c, t) ==
    IF factory = "inputFactory" THEN SourceHas(c, t) ELSE TargetHas(c, t)

\* factory.get_timeseries(starttime, endtime, channels): one trace per
\* channel holding the samples at starttime, starttime + delta, ... up to
\* endtime, NaN where the store holds none; no sample at all when endtime is
\* before starttime.
get_timeseries(factory, starttime, endtime, channels, delta) ==
    LET n == IF endtime < starttime THEN 0
             ELSE (endtime - starttime) \div delta + 1
    IN  [c \in Range(channels) |->
            [data |-> [i \in 1..n |->
                          IF FactoryHas(factory, c, starttime + (i - 1) * delta)
                          THEN <<1>> ELSE NaN],
             starttime |-> starttime,
             delta |-> delta]]

\* TUtils.get_timeseries_gaps(timeseries, channels, starttime, endtime): the
\* gaps of each channel's trace.
get_timeseries_gaps(timeseries, channels, starttime, endtime) ==
    get_stream_gaps(timeseries)

\* gap_is_new_data that only asks whether the target gap starts inside a
\* source gap.
RECURSIVE gap_is_new_data_start_only(_, _)
gap_is_new_data_start_only(source_gaps, target_gap) ==
    IF source_gaps = <<>> THEN TRUE
    ELSE IF /\ target_gap[1] >= Head(source_gaps)[1]
            /\ target_gap[1] <= Head(source_gaps)[2]
         THEN FALSE
         ELSE gap_is_new_data_start_only(Tail(source_gaps), target_gap)

\* TUtils.gap_is_new_data(source_gaps, target_gap): False at the first source
\* gap that fully contains the target gap, True when the loop finds none.

RECURSIVE gap_is_new_data(_, _)
gap_is_new_data(source_gaps, target_gap) ==
    IF source_gaps = <<>> THEN TRUE
    ELSE IF /\ target_gap[1] >= Head(source_gaps)[1]
            /\ target_gap[2] <= Head(source_gaps)[2]
         THEN FALSE
         ELSE gap_is_new_data(Tail(source_gaps), target_gap)

\* _get_output_channels: the loop "for channel in commandline_channels"
\* raises at the first channel that is not in algorithm_channels.
RECURSIVE ChannelLoopRaises(_, _)
ChannelLoopRaises(algorithm_channels, commandline_channels) ==
    IF commandline_channels = <<>> THEN FALSE
    ELSE IF Head(commandline_channels) \notin Range(algorithm_channels)
         THEN TRUE
         ELSE ChannelLoopRaises(algorithm_channels, Tail(commandline_channels))

\* _get_output_channels that returns the requested channels unchecked
_get_output_channels_unchecked(algorithm_channels, commandline_channels) ==
    IF commandline_channels.given
    THEN [raised |-> FALSE, channels |-> commandline_channels.list]
    ELSE [raised |-> FALSE, channels |-> algorithm_channels]

\* _get_output_channels(algorithm_channels, commandline_channels);
\* commandline_channels is [given |-> FALSE] for None.
_get_output_channels(algorithm_channels, commandline_channels) ==
    IF commandline_channels.given
    THEN IF ChannelLoopRaises(algorithm_channels, commandline_channels.list)
         THEN [raised |-> TRUE, channels |-> <<>>]
         ELSE [raised |-> FALSE, channels |-> commandline_channels.list]
    ELSE [raised |-> FALSE, channels |-> algorithm_channels]

\* run(options): the put_timeseries call it issues, unless
\* _get_output_channels raises first.
run(opts) ==
    LET oc == _get_output_channels(AlgOutputChannels, opts.outchannels)
    IN  [raised |-> oc.raised,
         put |-> [starttime |-> opts.starttime, endtime |-> opts.endtime,
                  channels |-> oc.channels]]

\* run_as_update up to "del timeseries_target": the output channels, the two
\* fetches and the merged gaps of each.
UpdateGaps(opts) ==
    LET input_channels == AlgInputChannels
        oc == _get_output_channels(AlgOutputChannels, opts.outchannels)
        delta == get_seconds_of_interval(opts.interval)
        timeseries_source == get_timeseries("inputFactory", opts.starttime,
                                 opts.endtime, input_channels, delta)
        timeseries_target == get_timeseries("outputFactory", opts.starttime,
                                 opts.endtime, oc.channels, delta)
    IN  [raised |-> oc.raised,
         source_gaps |->
             get_merged_gaps(
                 get_timeseries_gaps(timeseries_source, input_channels,
                                     opts.starttime, opts.endtime),
                 input_channels).merged,
         target_gaps |->
             get_merged_gaps(
                 get_timeseries_gaps(timeseries_target, oc.channels,
                                     opts.starttime, opts.endtime),
                 oc.channels).merged]

\* The backward-extension test that looks at the target's gaps only.
BackwardCheckTargetOnly(source_gaps, target_gaps, opts) ==
    /\ Len(target_gaps) # 0
    /\ target_gaps[1][1] = opts.starttime

\* The condition under which run_as_update calls itself.
BackwardCheck(source_gaps, target_gaps, opts) ==
    /\ \/ Len(source_gaps) = 0
       \/ /\ Len(source_gaps) # 0
          /\ source_gaps[1][1] # opts.starttime
    /\ Len(target_gaps) # 0
    /\ target_gaps[1][1] = opts.starttime

\* The recursive call's options with the start time backed up and the end
\* time left where it was.
RecurseOptionsKeepEnd(opts) ==
    [opts EXCEPT
        !.starttime = opts.starttime - (opts.endtime - opts.starttime)]

\* The options of the recursive call.
RecurseOptions(opts) ==
    [opts EXCEPT
        !.starttime = opts.starttime - (opts.endtime - opts.starttime),
        !.endtime = opts.starttime - get_seconds_of_interval(opts.interval)]

\* The options of run() that end at the gap's next-sample marker.
GapOptionsToNextSample(opts, target_gap) ==
    [opts EXCEPT !.starttime = target_gap[1], !.endtime = target_gap[3]]

\* The options of the run() call that fills target_gap.
GapOptions(opts, target_gap) ==
    [opts EXCEPT !.starttime = target_gap[1], !.endtime = target_gap[2]]

\* Nesting allowed to run_as_update (Python's recursion limit, scaled); the
\* windows of the modelled stores never reach it.
MaxDepth == NumSlots + 3

\* A run_as_update call in progress.
NewFrame(opts, g, depth) ==
    [options |-> opts, depth |-> depth, source_gaps |-> g.source_gaps,
     target_gaps |-> g.target_gaps, phase |-> "decide", recursed |-> FALSE,
     i |-> 1, new_data |-> <<>>, ran |-> <<>>]

Top == frames[Len(frames)]

CallRecord(opts, depth) ==
    [starttime |-> opts.starttime, endtime |-> opts.endtime, depth |-> depth]

\* controller.run(options), from the command line
CallRun ==
    /\ pc = "idle"
    /\ LET r == run(options)
       IN  /\ runs' = Append(runs, [starttime |-> options.starttime,
                                    endtime |-> options.endtime])
           /\ IF r.raised
              THEN /\ pc' = "raised"
                   /\ puts' = puts
              ELSE /\ pc' = "done"
                   /\ puts' = Append(puts, r.put)
    /\ UNCHANGED <<srcData, srcBefore, tgtData, options, frames, calls, returned>>
    /\ UNCHANGED gapVars
    /\ UNCHANGED iafVars

\* controller.run_as_update(options), from the command line: lines 80-100
CallRunAsUpdate ==
    /\ pc = "idle"
    /\ LET g == UpdateGaps(options)
       IN  /\ calls' = Append(calls, CallRecord(options, 1))
           /\ IF g.raised
              THEN /\ pc' = "raised"
                   /\ frames' = <<>>
              ELSE /\ pc' = "update"
                   /\ frames' = <<NewFrame(options, g, 1)>>
    /\ UNCHANGED <<srcData, srcBefore, tgtData, options, returned, runs, puts>>
    /\ UNCHANGED gapVars
    /\ UNCHANGED iafVars

\* lines 102-111: the condition holds, self.run_as_update(new_options) is
\* entered and runs up to its own condition.
Recurse ==
    /\ pc = "update"
    /\ Top.phase = "decide"
    /\ BackwardCheck(Top.source_gaps, Top.target_gaps, Top.options)
    /\ Len(frames) < MaxDepth
    /\ LET new_options == RecurseOptions(Top.options)
           g == UpdateGaps(new_options)
       IN  /\ calls' = Append(calls, CallRecord(new_options, Len(frames) + 1))
           /\ IF g.raised
              THEN /\ pc' = "raised"
                   /\ frames' = <<>>
              ELSE /\ pc' = pc
                   /\ frames' = Append(
                          [frames EXCEPT ![Len(frames)].phase = "fill",
                                         ![Len(frames)].recursed = TRUE],
                          NewFrame(new_options, g, Len(frames) + 1))
    /\ UNCHANGED <<srcData, srcBefore, tgtData, options, returned, runs, puts>>
    /\ UNCHANGED gapVars
    /\ UNCHANGED iafVars

\* lines 102-105: the condition does not hold
SkipRecurse ==
    /\ pc = "update"
    /\ Top.phase = "decide"
    /\ ~BackwardCheck(Top.source_gaps, Top.target_gaps, Top.options)
    /\ frames' = [frames EXCEPT ![Len(frames)].phase = "fill"]
    /\ UNCHANGED <<srcData, srcBefore, tgtData, options, pc, calls, returned, runs,
                   puts>>
    /\ UNCHANGED gapVars
    /\ UNCHANGED iafVars

\* lines 112-118, one iteration: the gap is new data, self.run(new_options)
FillGap ==
    /\ pc = "update"
    /\ Top.phase = "fill"
    /\ Top.i <= Len(Top.target_gaps)
    /\ gap_is_new_data(Top.source_gaps, Top.target_gaps[Top.i])
    /\ LET new_options == GapOptions(Top.options, Top.target_gaps[Top.i])
           span == [starttime |-> new_options.starttime,
                    endtime |-> new_options.endtime]
           r == run(new_options)
       IN  /\ runs' = Append(runs, span)
           /\ IF r.raised
              THEN /\ pc' = "raised"
                   /\ frames' = <<>>
                   /\ puts' = puts
              ELSE /\ pc' = pc
                   /\ puts' = Append(puts, r.put)
                   /\ frames' = [frames EXCEPT
                          ![Len(frames)].i = @ + 1,
                          ![Len(frames)].new_data = Append(@, TRUE),
                          ![Len(frames)].ran = Append(@, span)]
    /\ UNCHANGED <<srcData, srcBefore, tgtData, options, calls, returned>>
    /\ UNCHANGED gapVars
    /\ UNCHANGED iafVars

\* lines 112-114, one iteration: the gap is not new data, continue
SkipGap ==
    /\ pc = "update"
    /\ Top.phase = "fill"
    /\ Top.i <= Len(Top.target_gaps)
    /\ ~gap_is_new_data(Top.source_gaps, Top.target_gaps[Top.i])
    /\ frames' = [frames EXCEPT ![Len(frames)].i = @ + 1,
                                ![Len(frames)].new_data = Append(@, FALSE)]
    /\ UNCHANGED <<srcData, srcBefore, tgtData, options, pc, calls, returned, runs,
                   puts>>
    /\ UNCHANGED gapVars
    /\ UNCHANGED iafVars

\* the for loop is exhausted: run_as_update returns to its caller
Return ==
    /\ pc = "update"
    /\ Top.phase = "fill"
    /\ Top.i > Len(Top.target_gaps)
    /\ frames' = SubSeq(frames, 1, Len(frames) - 1)
    /\ returned' = Append(returned, Top)
    /\ pc' = IF Len(frames) = 1 THEN "done" ELSE pc
    /\ UNCHANGED <<srcData, srcBefore, tgtData, options, calls, runs, puts>>
    /\ UNCHANGED gapVars
    /\ UNCHANGED iafVars

\* The outchannels a caller may pass: None, a valid subset, a list with a
\* channel the algorithm does not produce, the empty list.
OutChannelChoices ==
    {[given |-> FALSE, list |-> <<>>],
     [given |-> TRUE, list |-> <<"X">>],
     [given |-> TRUE, list |-> <<"X", "F">>],
     [given |-> TRUE, list |-> <<>>]}

Init ==
    /\ srcData \in [0..(NumSlots - 1) -> BOOLEAN]
    /\ srcBefore \in BOOLEAN
    /\ tgtData \in [Range(AlgOutputChannels) -> [0..(NumSlots - 1) -> BOOLEAN]]
    /\ options \in [starttime : {SlotTime(k) : k \in 0..(NumSlots - 1)},
                    endtime : {SlotTime(NumSlots - 1)},
                    interval : {"minute"},
                    outchannels : OutChannelChoices]
    /\ pc = "idle"
    /\ frames = <<>>
    /\ calls = <<>>
    /\ returned = <<>>
    /\ runs = <<>>
    /\ puts = <<>>
    /\ stream = <<>>
    /\ gaps = <<>>
    /\ merged_gaps = <<>>
    /\ gpc = "unused"
    /\ IafUnused

Next ==
    \/ CallRun
    \/ CallRunAsUpdate
    \/ Recurse
    \/ SkipRecurse
    \/ FillGap
    \/ SkipGap
    \/ Return

Spec == Init /\ [][Next]_vars

\* ------------------------------------------------------- gap engine claims
\* The gap dictionary get_stream_gaps built from the stream, before any merge
\* touched it.
FreshGaps == get_stream_gaps(stream)

\* The maximal runs of consecutive missing samples of data, as <<first, last>>
\* (1-based positions).
NaNRuns(data) ==
    {r \in (1..Len(data)) \X (1..Len(data)) :
        /\ r[1] <= r[2]
        /\ \A i \in r[1]..r[2] : isnan(data[i])
        /\ (r[1] = 1 \/ ~isnan(data[r[1] - 1]))
        /\ (r[2] = Len(data) \/ ~isnan(data[r[2] + 1]))}

\* The timestamp of the sample at 1-based position i of trace t.
SampleTime(t, i) == t.starttime + (i - 1) * t.delta

\* C1: get_trace_gaps returns exactly one gap per maximal run of missing
\* samples, in time order, as [time of the run's first missing sample, time of
\* its last missing sample, that time plus one sampling period]; a run that
\* reaches the end of the trace is reported with next sample = starttime +
\* length * delta; a trace with no missing sample yields no gap.
C1_TraceGapsAreNaNRuns ==
    gpc = "gaps" =>
        \A c \in DOMAIN stream :
            LET t == stream[c]
                g == gaps[c]
                nanRuns == NaNRuns(t.data)
                n == Len(t.data)
            IN  /\ Len(g) = Cardinality(nanRuns)
                /\ \A k \in 1..Len(g) :
                       \E r \in nanRuns :
                           g[k] = <<SampleTime(t, r[1]), SampleTime(t, r[2]),
                                    SampleTime(t, r[2]) + t.delta>>
                /\ \A k \in 1..(Len(g) - 1) : g[k][1] < g[k + 1][1]
                /\ (n > 0 /\ isnan(t.data[n])) =>
                       /\ Len(g) > 0
                       /\ g[Len(g)][2] = t.starttime + (n - 1) * t.delta
                       /\ g[Len(g)][3] = t.starttime + n * t.delta
                /\ (\A i \in 1..n : ~isnan(t.data[i])) => g = <<>>

\* Two runs of missing samples in one trace, the second reaching its end.
C1_Witness ==
    /\ gpc = "gaps"
    /\ \E c \in DOMAIN stream :
         /\ Len(stream[c].data) = MaxLen
         /\ isnan(stream[c].data[MaxLen])
         /\ isnan(stream[c].data[1])
         /\ Len(gaps[c]) = 2
         /\ gaps[c][2][3] = stream[c].starttime + MaxLen * stream[c].delta

\* Every gap of every channel of the dictionary d, as a set of values.
AllGaps(d) == UNION {{d[c][i] : i \in 1..Len(d[c])} : c \in DOMAIN d}

\* The sweep as the claim words it, on gap values: gaps taken in ascending
\* start order; a gap starting at or before the current merged gap's
\* next-sample marker is folded in and the end (and marker) become the
\* maximum of the two; a gap starting strictly after it opens a new merged gap.
RECURSIVE ClaimSweep(_, _, _)
ClaimSweep(S, cur, out) ==
    IF S = {}
    THEN IF cur = None THEN out ELSE Append(out, cur)
    ELSE LET g == CHOOSE x \in S : \A y \in S : x[1] <= y[1]
         IN  IF cur = None
             THEN ClaimSweep(S \ {g}, g, out)
             ELSE IF g[1] <= cur[3]
             THEN ClaimSweep(S \ {g},
                      <<cur[1], Max(cur[2], g[2]), Max(cur[3], g[3])>>, out)
             ELSE ClaimSweep(S \ {g}, g, Append(out, cur))

\* C2: get_merged_gaps folds a gap into the current merged gap whenever its
\* start is <= the current next-sample marker, the merged end being the
\* maximum of the two ends, and opens a new merged gap for a gap starting
\* strictly after the marker; [10,20) and [15,25) merge into [10,25), and
\* [10,20) and [30,40) stay two gaps.
C2_MergeFoldsUpToMarker ==
    gpc = "merged" =>
        /\ merged_gaps = ClaimSweep(AllGaps(FreshGaps), None, <<>>)
        /\ (FreshGaps = [c \in GapChannels |->
                            IF c = "H" THEN <<(<<10, 15, 20>>)>>
                            ELSE <<(<<15, 20, 25>>)>>])
               => merged_gaps = <<(<<10, 20, 25>>)>>
        /\ (FreshGaps = [c \in GapChannels |->
                            IF c = "H" THEN <<(<<10, 15, 20>>)>>
                            ELSE <<(<<30, 35, 40>>)>>])
               => merged_gaps = <<(<<10, 15, 20>>), (<<30, 35, 40>>)>>

\* The claim's first example: channel gaps [10,20) and [15,25), merged.
C2_Witness ==
    /\ gpc = "merged"
    /\ FreshGaps = [c \in GapChannels |->
                       IF c = "H" THEN <<(<<10, 15, 20>>)>>
                       ELSE <<(<<15, 20, 25>>)>>]
    /\ merged_gaps = <<(<<10, 20, 25>>)>>

\* C3: the list get_merged_gaps returns is ordered by start time, its gaps
\* are pairwise non-overlapping (each starts strictly after the previous one's
\* end and next-sample marker), and every input gap's span [start, end] lies
\* inside exactly one merged gap.
C3_MergedOrderedDisjointCovering ==
    gpc = "merged" =>
        /\ \A k \in 1..(Len(merged_gaps) - 1) :
               /\ merged_gaps[k][1] < merged_gaps[k + 1][1]
               /\ merged_gaps[k + 1][1] > merged_gaps[k][2]
               /\ merged_gaps[k + 1][1] > merged_gaps[k][3]
        /\ \A g \in AllGaps(FreshGaps) :
               Cardinality({k \in 1..Len(merged_gaps) :
                               /\ merged_gaps[k][1] <= g[1]
                               /\ g[2] <= merged_gaps[k][2]}) = 1

\* Two merged gaps, the first of which absorbed a gap of the other channel
\* lying strictly inside it.
C3_Witness ==
    /\ gpc = "merged"
    /\ Len(merged_gaps) = 2
    /\ \E g \in AllGaps(FreshGaps) :
         /\ merged_gaps[1][1] < g[1]
         /\ g[2] < merged_gaps[1][2]

\* ------------------------------------------------------- controller claims
\* Every run_as_update call seen so far, in progress or returned.
AllFrames == Range(frames) \cup Range(returned)

\* The output channels run_as_update uses under opts.
OutputChannelsOf(opts) ==
    _get_output_channels(AlgOutputChannels, opts.outchannels).channels

\* Source gap sg fully contains target gap tg.
Contains(sg, tg) == sg[1] <= tg[1] /\ sg[2] >= tg[2]

\* Source gap sg and target gap tg share a sample.
Overlaps(sg, tg) == sg[1] <= tg[2] /\ tg[1] <= sg[2]

\* C4: gap_is_new_data(source_gaps, target_gap) is false exactly when some
\* single source gap fully contains the target gap, and true in every other
\* case, also when no source gap overlaps the target gap; target [10,20) with
\* source gap [5,25) gives false.
C4_NewDataIffNotContained ==
    /\ \A f \in AllFrames :
         \A j \in 1..Len(f.new_data) :
            /\ f.new_data[j] =
                   ~(\E k \in 1..Len(f.source_gaps) :
                         Contains(f.source_gaps[k], f.target_gaps[j]))
            /\ (\A k \in 1..Len(f.source_gaps) :
                    ~Overlaps(f.source_gaps[k], f.target_gaps[j]))
                   => f.new_data[j]
    /\ ~gap_is_new_data(<<(<<5, 20, 25>>)>>, <<10, 15, 20>>)
    /\ gap_is_new_data(<<(<<25, 30, 35>>)>>, <<10, 15, 20>>)

\* One call met a target gap a source gap contains and one no source gap
\* contains, although a source gap exists.
C4_Witness ==
    \E f \in AllFrames :
        /\ Len(f.source_gaps) > 0
        /\ \E j \in 1..Len(f.new_data) : f.new_data[j]
        /\ \E j \in 1..Len(f.new_data) : ~f.new_data[j]

\* The output store holds a sample at time t in every output channel of opts.
TargetHasDataAt(opts, t) ==
    \A c \in Range(OutputChannelsOf(opts)) : TargetHas(c, t)

\* C5: run_as_update calls itself if and only if the target's first merged
\* gap starts exactly at options.starttime and the source's merged gaps are
\* empty or their first gap does not start at options.starttime; when the
\* target has data at starttime no recursive call is made, whatever the
\* source holds earlier.
C5_RecursesIffTargetGapAtStart ==
    \A f \in AllFrames :
        f.phase = "fill" =>
            /\ f.recursed <=>
                   /\ Len(f.target_gaps) > 0
                   /\ f.target_gaps[1][1] = f.options.starttime
                   /\ \/ Len(f.source_gaps) = 0
                      \/ f.source_gaps[1][1] # f.options.starttime
            /\ f.recursed <=> (\E k \in 1..Len(calls) :
                                   calls[k].depth = f.depth + 1)
            /\ TargetHasDataAt(f.options, f.options.starttime) => ~f.recursed
            /\ (f.depth = 1 /\ TargetHasDataAt(f.options, f.options.starttime))
                   => Len(calls) = 1

\* A call recursed although the source has gaps (none at starttime), and the
\* call it made did not recurse although its target is empty at its start.
C5_Witness ==
    /\ Len(frames) = 2
    /\ frames[1].recursed
    /\ Len(frames[1].source_gaps) > 0
    /\ frames[2].phase = "fill"
    /\ ~frames[2].recursed
    /\ Len(frames[2].target_gaps) > 0
    /\ frames[2].target_gaps[1][1] = frames[2].options.starttime

\* The run() calls the claim lets a call make over its first n target gaps.
RECURSIVE ExpectedRuns(_, _, _)
ExpectedRuns(source_gaps, target_gaps, n) ==
    IF n = 0 THEN <<>>
    ELSE IF \E k \in 1..Len(source_gaps) :
                Contains(source_gaps[k], target_gaps[n])
         THEN ExpectedRuns(source_gaps, target_gaps, n - 1)
         ELSE Append(ExpectedRuns(source_gaps, target_gaps, n - 1),
                     [starttime |-> target_gaps[n][1],
                      endtime |-> target_gaps[n][2]])

\* The run() calls of a list of run_as_update calls, in order.
RECURSIVE ConcatRan(_)
ConcatRan(fs) ==
    IF fs = <<>> THEN <<>> ELSE Head(fs).ran \o ConcatRan(Tail(fs))

C8_FixedWindowStep ==
    \A k \in 1..(Len(calls) - 1) :
        /\ calls[k + 1].depth = calls[k].depth + 1
        /\ calls[k + 1].endtime =
               calls[k].starttime - get_seconds_of_interval(options.interval)
        /\ calls[k + 1].starttime < calls[k].starttime
        /\ calls[k].starttime - calls[k + 1].starttime =
               calls[1].starttime - calls[2].starttime

\* The input store holds a sample at time t in every input channel.
SourceHasDataAt(t) == \A c \in Range(AlgInputChannels) : SourceHas(c, t)

C10_OutputChannels ==
    pc # "unused" =>
        LET cmd == options.outchannels
            bad == /\ cmd.given
                   /\ \E i \in DOMAIN cmd.list :
                          \A j \in DOMAIN AlgOutputChannels :
                              cmd.list[i] # AlgOutputChannels[j]
            r == _get_output_channels(AlgOutputChannels, cmd)
        IN  /\ r.raised = bad
            /\ (cmd.given /\ ~bad) => r.channels = cmd.list
            /\ ~cmd.given => r.channels = AlgOutputChannels
            /\ pc = "raised" => (bad /\ puts = <<>>)
            /\ pc \in {"update", "done"} => ~bad
            /\ \A k \in 1..Len(puts) :
                   puts[k].channels =
                       IF cmd.given THEN cmd.list ELSE AlgOutputChannels

\* run_as_update raised on a request whose first channel is valid and whose
\* second is not; nothing was put.
C10_Witness ==
    /\ pc = "raised"
    /\ Len(calls) = 1
    /\ options.outchannels.given
    /\ Len(options.outchannels.list) = 2
    /\ puts = <<>>

\* ============================================================== IAF format
\* ------------------------------------------------------ obspy UTCDateTime
\* A time is the number of seconds since 2014-01-01T00:00:00; the calendar
\* is the Gregorian one.
IsLeap(y) == (y % 4 = 0 /\ y % 100 # 0) \/ y % 400 = 0

DaysInYear(y) == IF IsLeap(y) THEN 366 ELSE 365

DaysInMonth(y, m) ==
    CASE m \in {4, 6, 9, 11} -> 30
      [] m = 2 -> IF IsLeap(y) THEN 29 ELSE 28
      [] OTHER -> 31

\* <<year, day of year>> of the day n days after 1 January of year y
RECURSIVE YearDay(_, _)
YearDay(n, y) ==
    IF n < DaysInYear(y) THEN <<y, n + 1>>
    ELSE YearDay(n - DaysInYear(y), y + 1)

\* <<month, day of month>> of day jd of the part of year y that starts with
\* month m
RECURSIVE MonthDay(_, _, _)
MonthDay(y, jd, m) ==
    IF jd <= DaysInMonth(y, m) THEN <<m, jd>>
    ELSE MonthDay(y, jd - DaysInMonth(y, m), m + 1)

Year(t) == YearDay(t \div 86400, 2014)[1]
Julday(t) == YearDay(t \div 86400, 2014)[2]
Month(t) == MonthDay(Year(t), Julday(t), 1)[1]
Day(t) == MonthDay(Year(t), Julday(t), 1)[2]

RECURSIVE DaysBeforeYear(_)
DaysBeforeYear(y) ==
    IF y <= 2014 THEN 0 ELSE DaysInYear(y - 1) + DaysBeforeYear(y - 1)

RECURSIVE DaysBeforeMonth(_, _)
DaysBeforeMonth(y, m) ==
    IF m <= 1 THEN 0 ELSE DaysInMonth(y, m - 1) + DaysBeforeMonth(y, m - 1)

\* UTCDateTime(year, julday=jd)
UTCDateTimeOrdinal(y, jd) == (DaysBeforeYear(y) + jd - 1) * 86400

\* UTCDateTime(year, month, day)
UTCDateTimeDate(y, m, d) ==
    (DaysBeforeYear(y) + DaysBeforeMonth(y, m) + d - 1) * 86400

\* UTCDateTime(str(date)) for a 7 digit string: year and day of year
UTCDateTimeString(date) == UTCDateTimeOrdinal(date \div 1000, date % 1000)

\* ----------------------------------------------------------- numpy arrays
\* An array is kept run-length encoded: a sequence of runs <<n, x>>, n >= 1
\* consecutive elements equal to x.  An element of a float64 array is NaN
\* or <<h>>, the number h / 100; an element of an integer array is <<v>>.
RECURSIVE ALen(_)
ALen(a) == IF a = <<>> THEN 0 ELSE a[1][1] + ALen(Tail(a))

\* a[i:j], 0 <= i
RECURSIVE ASlice(_, _, _)
ASlice(a, i, j) ==
    IF a = <<>> \/ j <= i THEN <<>>
    ELSE LET n == a[1][1]
         IN  IF i >= n THEN ASlice(Tail(a), i - n, j - n)
             ELSE <<<<(IF j < n THEN j ELSE n) - i, a[1][2]>>>>
                  \o ASlice(Tail(a), 0, j - n)

\* a[i], 0 <= i < len(a)
RECURSIVE AAt(_, _)
AAt(a, i) == IF i < a[1][1] THEN a[1][2] ELSE AAt(Tail(a), i - a[1][1])

\* the elements of a
AElems(a) == {a[k][2] : k \in DOMAIN a}

\* the array a followed by the array b (numpy.append, list.extend): two
\* runs of one value that meet are one run
AConcat(a, b) ==
    IF a = <<>> THEN b
    ELSE IF b = <<>> THEN a
    ELSE IF a[Len(a)][2] = b[1][2]
         THEN SubSeq(a, 1, Len(a) - 1)
              \o <<<<a[Len(a)][1] + b[1][1], b[1][2]>>>> \o Tail(b)
         ELSE a \o b

\* the array of the runs rs, none of them empty
RECURSIVE ARuns(_)
ARuns(rs) == IF rs = <<>> THEN <<>> ELSE AConcat(<<Head(rs)>>, ARuns(Tail(rs)))

\* len(a[numpy.isnan(a)])
RECURSIVE ANanCount(_)
ANanCount(a) ==
    IF a = <<>> THEN 0
    ELSE (IF isnan(a[1][2]) THEN a[1][1] ELSE 0) + ANanCount(Tail(a))

\* the sum of the elements of a that are not NaN, in hundredths
RECURSIVE ANanSum(_)
ANanSum(a) ==
    IF a = <<>> THEN 0
    ELSE (IF isnan(a[1][2]) THEN 0 ELSE a[1][1] * a[1][2][1])
         + ANanSum(Tail(a))

\* int(x / y) for y > 0: the quotient truncated toward zero
TruncDiv(x, y) == IF x >= 0 THEN x \div y ELSE -((-x) \div y)

\* -------------------------------------------------------------- statistics
\* The average is the fraction <<sum, count>> of hundredths, or NaN when no
\* element is a number; the standard deviation, which nothing reads, is
\* left out.
statistics(data) ==
    LET count == ALen(data) - ANanCount(data)
        values == {x[1] : x \in AElems(data) \ {NaN}}
    IN  IF count > 0
        THEN [average |-> <<ANanSum(data), count>>,
              maximum |-> <<CHOOSE v \in values : \A w \in values : w <= v>>,
              minimum |-> <<CHOOSE v \in values : \A w \in values : v <= w>>]
        ELSE [average |-> NaN, maximum |-> NaN, minimum |-> NaN]

\* -------------------------------------------------------------- get_traces
\* A trace is [starttime, delta, data]; its end time is its last sample's.
TraceEnd(tr) == tr.starttime + (ALen(tr.data) - 1) * tr.delta

\* obspy's Trace.slice(start, end): the samples at the times t with
\* start <= t <= end.
slice(tr, start, end) ==
    LET d == tr.delta
        i0 == IF start <= tr.starttime THEN 0
              ELSE (start - tr.starttime + d - 1) \div d
        i1 == IF end < tr.starttime THEN -1
              ELSE (end - tr.starttime) \div d
    IN  [starttime |-> tr.starttime + i0 * d,
         delta |-> d,
         data |-> ASlice(tr.data, i0, i1 + 1)]

\* the date the while loop of get_traces moves to from start
NextDate(start, itv) ==
    CASE itv = "hours" -> start + 3600
      [] itv = "days" -> start + 86400
      [] itv = "months" ->
           IF Month(start) + 1 > 12
           THEN UTCDateTimeDate(Year(start) + 1, 1, 1)
           ELSE UTCDateTimeDate(Year(start), Month(start) + 1, 1)

\* the while loop of get_traces from date on; a local trace carries its
\* statistics
RECURSIVE TracesLoop(_, _, _, _)
TracesLoop(tr, itv, date, acc) ==
    IF ~(date < TraceEnd(tr)) THEN acc
    ELSE LET start == date
             next == NextDate(start, itv)
             end == next - 60
             localTrace == slice(tr, start, end)
         IN  TracesLoop(tr, itv, next,
                 Append(acc, [starttime |-> localTrace.starttime,
                              delta |-> localTrace.delta,
                              data |-> localTrace.data,
                              statistics |-> statistics(localTrace.data)]))

get_traces(tr, itv) == TracesLoop(tr, itv, tr.starttime, <<>>)

\* --------------------------------------------------------------- IAFParser
EIGHTS == 888888
NINES == 999999
K_NINES == 999
REC_LENGTH == 23552
DAY_SECONDS == 86400

\* struct.calcsize of the format of a record of nHeader header fields and
\* nData integers: every field of IAFSTRING takes 4 bytes
calcsize(nHeader, nData) == 4 * (nHeader + nData)

\* A record is the tuple struct.unpack returns: record[0..15] are the header
\* fields, kept as the sequence header; record[16:] are the integers, kept
\* as the array data.  A text field is the sequence of its characters.
\* record[a:b] for 16 <= a
RecordSlice(record, a, b) == ASlice(record.data, a - 16, b - 16)

\* str.strip() and str.rjust(4)
RECURSIVE lstrip(_)
lstrip(str) ==
    IF str # <<>> /\ Head(str) = " " THEN lstrip(Tail(str)) ELSE str

RECURSIVE rstrip(_)
rstrip(str) ==
    IF str # <<>> /\ str[Len(str)] = " "
    THEN rstrip(SubSeq(str, 1, Len(str) - 1)) ELSE str

strip(str) == rstrip(lstrip(str))

RECURSIVE rjust(_, _)
rjust(str, width) ==
    IF Len(str) >= width THEN str ELSE rjust(<<" ">> \o str, width)

\* dict.update(other) and d[k] = v on dictionaries kept as functions
DictUpdate(d, other) ==
    [k \in DOMAIN d \cup DOMAIN other |->
        IF k \in DOMAIN other THEN other[k] ELSE d[k]]

DictSet(d, k, v) == [x \in DOMAIN d \cup {k} |-> IF x = k THEN v ELSE d[x]]

\* IAFParser.__init__
NewParser ==
    [headers |-> [data_type |-> "definitive"],
     metadata |-> [network |-> "NT"],
     channels |-> <<>>,
     data |-> <<>>,
     starttime |-> None,
     endtime |-> None]

\* x / 1000.0 and str(x) of a header field, kept unevaluated
Thousandth(x) == [num |-> x, den |-> 1000]
StrOf(x) == [str |-> x]

_parse_header(p, record) ==
    LET h == record.header
    IN  [p EXCEPT !.headers = DictUpdate(@,
            [station |-> strip(h[1]),
             date |-> h[2],
             geodetic_latitude |-> StrOf(Thousandth(h[3])),
             geodetic_longitude |-> StrOf(Thousandth(h[4])),
             elevation |-> StrOf(h[5]),
             channels |-> h[6],
             agency_name |-> h[7],
             d_conversion |-> h[8],
             data_quality |-> h[9],
             instrumentation |-> h[10],
             k_9 |-> h[11],
             sensor_sampling_rate |-> Thousandth(h[12]),
             sensor_orientation |-> h[13],
             publication_date |-> h[14],
             version |-> h[15]])]

_parse_channels(p) ==
    LET c == p.headers.channels
    IN  [p EXCEPT !.channels =
            @ \o <<c[1], c[2], c[3]>>
              \o (IF Len(c) > 3 THEN <<c[4]>> ELSE <<"">>)
              \o <<"K">>]

\* for channel in self.channels: self.data[channel] = []
RECURSIVE ClearChannels(_, _)
ClearChannels(data, chans) ==
    IF chans = <<>> THEN data
    ELSE ClearChannels(DictSet(data, Head(chans), <<>>), Tail(chans))

\* the loops "for channel, count in zip(self.channels[0:4], xrange(0, 4))"
\* from count on: the group starts at record[base] and gives each channel
\* width values
RECURSIVE ExtendChannels(_, _, _, _, _, _)
ExtendChannels(data, chans, record, base, width, count) ==
    IF count >= 4 \/ count >= Len(chans) THEN data
    ELSE ExtendChannels(
             [data EXCEPT ![chans[count + 1]] =
                 AConcat(@, RecordSlice(record, base + width * count,
                                        base + width * (count + 1)))],
             chans, record, base, width, count + 1)

\* _parse_data that takes the start time and the metadata from every record
_parse_data_last_wins(p, itv, record) ==
    LET p1 == [p EXCEPT !.starttime = UTCDateTimeString(p.headers.date),
                        !.metadata = DictUpdate(@, p.headers),
                        !.data = IF "station" \notin DOMAIN p.metadata
                                 THEN ClearChannels(@, p.channels) ELSE @]
        p2 == [p1 EXCEPT !.endtime =
                  UTCDateTimeString(p.headers.date) + DAY_SECONDS]
        d3 == CASE itv = "minute" ->
                     ExtendChannels(p2.data, p2.channels, record, 16, 1440, 0)
                [] itv = "hourly" ->
                     ExtendChannels(p2.data, p2.channels, record, 5776, 24, 0)
                [] itv = "daily" ->
                     ExtendChannels(p2.data, p2.channels, record, 5872, 1, 0)
                [] OTHER -> p2.data
    IN  [p2 EXCEPT !.data =
            [d3 EXCEPT ![p2.channels[5]] =
                AConcat(@, RecordSlice(record, 5876, 5884))]]

_parse_data(p, itv, record) ==
    LET first == "station" \notin DOMAIN p.metadata
        p1 == IF first
              THEN [p EXCEPT !.starttime = UTCDateTimeString(p.headers.date),
                             !.metadata = DictUpdate(@, p.headers),
                             !.data = ClearChannels(@, p.channels)]
              ELSE p
        p2 == [p1 EXCEPT !.endtime =
                  UTCDateTimeString(p.headers.date) + DAY_SECONDS]
        d3 == CASE itv = "minute" ->
                     ExtendChannels(p2.data, p2.channels, record, 16, 1440, 0)
                [] itv = "hourly" ->
                     ExtendChannels(p2.data, p2.channels, record, 5776, 24, 0)
                [] itv = "daily" ->
                     ExtendChannels(p2.data, p2.channels, record, 5872, 1, 0)
                [] OTHER -> p2.data
    IN  [p2 EXCEPT !.data =
            [d3 EXCEPT ![p2.channels[5]] =
                AConcat(@, RecordSlice(record, 5876, 5884))]]

\* _post_process on one stored value x = <<v>> of a channel, without its
\* line "data[data == NINES] = numpy.nan"
post_process_value_no_nines(channel, x) ==
    IF x[1] = EIGHTS THEN NaN
    ELSE IF channel = "K"
         THEN IF x[1] = K_NINES THEN NaN ELSE <<100 * x[1]>>
         ELSE <<10 * x[1]>>

\* _post_process on one stored value x = <<v>> of a channel: the float64 of
\* v, the sentinels to NaN, then v / 10. unless the channel is K
post_process_value(channel, x) ==
    IF x[1] = EIGHTS \/ x[1] = NINES THEN NaN
    ELSE IF channel = "K"
         THEN IF x[1] = K_NINES THEN NaN ELSE <<100 * x[1]>>
         ELSE <<10 * x[1]>>

_post_process(p) ==
    [p EXCEPT !.data =
        [channel \in DOMAIN p.data |->
            ARuns([k \in DOMAIN p.data[channel] |->
                <<p.data[channel][k][1],
                  post_process_value(channel, p.data[channel][k][2])>>])]]

\* len(data) of the string passed to parse
RawLen(raw) == REC_LENGTH * Len(raw.records) + raw.trailing

\* parse, up to its loop
ParseBegin ==
    /\ ppc = "start"
    /\ pday' = [day |-> 0, days |-> RawLen(rawData) \div REC_LENGTH]
    /\ ppc' = "loop"
    /\ UNCHANGED <<rawData, pInterval, parser>>
    /\ UNCHANGED <<wTimeseries, wChannels, nanCast, wOut, writer, wpc, wday>>
    /\ UNCHANGED <<tInput, tResult, tpc>>
    /\ UNCHANGED <<gfArgs, gfStream, gfpc>>
    /\ UNCHANGED <<gapVars, ctlVars>>

\* one iteration of the loop of parse
ParseRecord ==
    /\ ppc = "loop"
    /\ pday.day < pday.days
    /\ LET record == rawData.records[pday.day + 1]
           p1 == _parse_header(parser, record)
           p2 == IF pday.day = 0 THEN _parse_channels(p1) ELSE p1
       IN  parser' = _parse_data(p2, pInterval, record)
    /\ pday' = [pday EXCEPT !.day = @ + 1]
    /\ UNCHANGED <<rawData, pInterval, ppc>>
    /\ UNCHANGED <<wTimeseries, wChannels, nanCast, wOut, writer, wpc, wday>>
    /\ UNCHANGED <<tInput, tResult, tpc>>
    /\ UNCHANGED <<gfArgs, gfStream, gfpc>>
    /\ UNCHANGED <<gapVars, ctlVars>>

\* the end of parse
PostProcess ==
    /\ ppc = "loop"
    /\ pday.day >= pday.days
    /\ parser' = _post_process(parser)
    /\ ppc' = "done"
    /\ UNCHANGED <<rawData, pInterval, pday>>
    /\ UNCHANGED <<wTimeseries, wChannels, nanCast, wOut, writer, wpc, wday>>
    /\ UNCHANGED <<tInput, tResult, tpc>>
    /\ UNCHANGED <<gfArgs, gfStream, gfpc>>
    /\ UNCHANGED <<gapVars, ctlVars>>

\* ------------------------------------------------ the parser's specification
\* most records of one string passed to parse
MaxRecords == 2

\* the bytes a string may hold after its last whole record
TrailingChoices == {0, 1, REC_LENGTH - 1}

\* The 16 header fields of a record.
RawHeader(station, date, chans) ==
    <<station, date, 40137, 254763, 1682, chans, <<"U", "S", "G", "S">>, 10000,
      <<"I", "M", "A", "G">>, <<"F", "G", "E", " ">>, 500, 100,
      chans, <<"1", "5", "0", "1">>, 3, 0>>

\* The 5872 integers of a record whose stored values are a and b: each
\* minute channel half a, half b; each hour channel half b, half a; the day
\* values a; the K values half a, half b; the four reserved integers 0.
RawRecordData(a, b) ==
    <<<<720, <<a>>>>, <<720, <<b>>>>, <<720, <<a>>>>, <<720, <<b>>>>,
      <<720, <<a>>>>, <<720, <<b>>>>, <<720, <<a>>>>, <<720, <<b>>>>,
      <<12, <<b>>>>, <<12, <<a>>>>, <<12, <<b>>>>, <<12, <<a>>>>,
      <<12, <<b>>>>, <<12, <<a>>>>, <<12, <<b>>>>, <<12, <<a>>>>,
      <<4, <<a>>>>,
      <<4, <<a>>>>, <<4, <<b>>>>,
      <<4, <<0>>>>>>

RawHeaders ==
    {RawHeader(<<" ", "B", "O", "U">>, 2014001, <<"H", "D", "Z", "G">>),
     RawHeader(<<" ", "B", "O", "U">>, 2014002, <<"H", "D", "Z", "G">>),
     RawHeader(<<" ", "F", "R", "D">>, 2014032, <<"X", "Y", "Z", "G">>)}

RawValues == {<<123, NINES>>, <<EIGHTS, -45>>, <<K_NINES, 3>>}

RawRecords ==
    {[header |-> h, data |-> RawRecordData(v[1], v[2])] :
        h \in RawHeaders, v \in RawValues}

ParseInit ==
    /\ rawData \in [records : UNION {[1..n -> RawRecords] : n \in 0..MaxRecords},
                    trailing : TrailingChoices]
    /\ pInterval \in {"minute", "hourly", "daily"}
    /\ parser = NewParser
    /\ ppc = "start"
    /\ pday = <<>>
    /\ WriterUnused
    /\ TracesUnused
    /\ CleanUnused
    /\ CtlUnused
    /\ stream = <<>>
    /\ gaps = <<>>
    /\ merged_gaps = <<>>
    /\ gpc = "unused"

ParseNext == ParseBegin \/ ParseRecord \/ PostProcess

SpecParse == ParseInit /\ [][ParseNext]_vars

\* ----------------------------------------------------------- parser claims
\* C11: parse fails with a record-count error whenever the length of its
\* input is not an exact multiple of the record size 23552; it never
\* decodes a prefix and ignores the trailing bytes.  The parser has no
\* failing outcome, so the claim says it never completes on such an input.
C11_RejectsPartialRecord ==
    ppc = "done" => RawLen(rawData) % 23552 = 0

\* where the group of the interval starts in the record, and how many values
\* it holds per channel
GroupBase(itv) ==
    CASE itv = "minute" -> 16 [] itv = "hourly" -> 5776 [] itv = "daily" -> 5872

GroupWidth(itv) ==
    CASE itv = "minute" -> 1440 [] itv = "hourly" -> 24 [] itv = "daily" -> 1

\* the elements n.. of the array a, for n no more than its first run
ADrop(a, n) ==
    IF a[1][1] = n THEN Tail(a) ELSE <<<<a[1][1] - n, a[1][2]>>>> \o Tail(a)

\* the pairs <<a[i], b[i]>> over the positions i the arrays a and b share
RECURSIVE AZip(_, _)
AZip(a, b) ==
    IF a = <<>> \/ b = <<>> THEN {}
    ELSE LET n == IF a[1][1] <= b[1][1] THEN a[1][1] ELSE b[1][1]
         IN  {<<a[1][2], b[1][2]>>} \cup AZip(ADrop(a, n), ADrop(b, n))

\* the values of channel number c (0..3) of the interval's group, and the K
\* values, as stored in record r of the input
StoredGroup(r, c) ==
    RecordSlice(rawData.records[r],
                GroupBase(pInterval) + GroupWidth(pInterval) * c,
                GroupBase(pInterval) + GroupWidth(pInterval) * (c + 1))

StoredK(r) == RecordSlice(rawData.records[r], 5876, 5884)

\* the same values after parse
DecodedGroup(r, c) ==
    ASlice(parser.data[parser.channels[c + 1]],
           GroupWidth(pInterval) * (r - 1), GroupWidth(pInterval) * r)

DecodedK(r) == ASlice(parser.data["K"], 8 * (r - 1), 8 * r)

\* the float v / 10 and the float v
Tenth(v) == <<10 * v>>
Unscaled(v) == <<100 * v>>

ScaledValuesDecoded ==
    \A r \in 1..Len(rawData.records), c \in 0..3 :
        /\ ALen(DecodedGroup(r, c)) = GroupWidth(pInterval)
        /\ \A pr \in AZip(StoredGroup(r, c), DecodedGroup(r, c)) :
            pr[2] = IF pr[1][1] \in {888888, 999999} THEN NaN
                    ELSE Tenth(pr[1][1])

\* C14 as claimed: after parse every stored minute/hour/day value 888888 or
\* 999999 is missing and every other one v is v / 10; every stored K value
\* 999 is missing and every other K value is passed through unscaled.
C14_DecodeSentinelsAsClaimed ==
    ppc = "done" =>
        /\ ScaledValuesDecoded
        /\ \A r \in 1..Len(rawData.records) :
            /\ ALen(DecodedK(r)) = 8
            /\ \A pr \in AZip(StoredK(r), DecodedK(r)) :
                pr[2] = IF pr[1][1] = 999 THEN NaN ELSE Unscaled(pr[1][1])

\* C14 amended: after parse every stored minute/hour/day value 888888 or
\* 999999 is missing and every other one v is v / 10; every stored K value
\* 999, 888888 or 999999 is missing and every other K value is passed
\* through unscaled.
C14_DecodeSentinels ==
    ppc = "done" =>
        /\ ScaledValuesDecoded
        /\ \A r \in 1..Len(rawData.records) :
            /\ ALen(DecodedK(r)) = 8
            /\ \A pr \in AZip(StoredK(r), DecodedK(r)) :
                pr[2] = IF pr[1][1] \in {999, 888888, 999999} THEN NaN
                        ELSE Unscaled(pr[1][1])

C14_Witness ==
    /\ ppc = "done"
    /\ Len(rawData.records) = 2
    /\ <<<<999999>>, NaN>> \in AZip(StoredK(1), DecodedK(1))
    /\ <<<<3>>, <<300>>>> \in AZip(StoredK(2), DecodedK(2))
    /\ <<<<999>>, NaN>> \in AZip(StoredK(2), DecodedK(2))
    /\ <<<<999>>, <<9990>>>> \in AZip(StoredGroup(2, 3), DecodedGroup(2, 3))
    /\ <<<<999999>>, NaN>> \in AZip(StoredGroup(1, 0), DecodedGroup(1, 0))
    /\ <<<<123>>, <<1230>>>> \in AZip(StoredGroup(1, 0), DecodedGroup(1, 0))

\* C17: after decoding N >= 1 records the session metadata (station,
\* channel-set code, channel list) and the start time are the first
\* record's, the date header and the end time (date + 1 day) are those of
\* the last record decoded, whatever the later headers say.
C17_FirstAndLastRecord ==
    (ppc \in {"loop", "done"} /\ pday.day >= 1) =>
        LET first == rawData.records[1].header
            last == rawData.records[pday.day].header
        IN  /\ parser.metadata.station = strip(first[1])
            /\ parser.metadata.channels = first[6]
            /\ parser.channels = first[6] \o <<"K">>
            /\ parser.starttime = UTCDateTimeOrdinal(first[2] \div 1000,
                                                     first[2] % 1000)
            /\ parser.headers.date = last[2]
            /\ parser.endtime = UTCDateTimeOrdinal(last[2] \div 1000,
                                                   last[2] % 1000) + 86400

C17_Witness ==
    /\ ppc = "done"
    /\ Len(rawData.records) = 2
    /\ rawData.records[1].header[1] # rawData.records[2].header[1]
    /\ rawData.records[1].header[6] # rawData.records[2].header[6]
    /\ rawData.records[1].header[2] = 2014001
    /\ rawData.records[2].header[2] = 2014032
    /\ parser.metadata.station = <<"B", "O", "U">>
    /\ parser.headers.station = <<"F", "R", "D">>
    /\ parser.starttime = 0
    /\ parser.endtime = 32 * 86400

\* --------------------------------------------------------------- IAFWriter
X_CHANNELS == <<"X", "Y", "Z", "G">>
H_CHANNELS == <<"H", "D", "Z", "G">>

\* What numpy's astype(int) gives for NaN is not defined: -2^63 where int
\* is 64 bits wide and the processor's conversion saturates (written as the
\* pair <<-1, 63>>, no 32 bit integer), 0 on other processors.
INT64_MIN == <<-1, 63>>
NanCastChoices == {INT64_MIN, <<0>>}

\* A stream is [stats, data]: the traces of one fetch share their stats
\* (start time, sampling period, number of samples), data maps a channel to
\* its trace's array.
StreamEnd(st) == st.stats.starttime + (st.stats.npts - 1) * st.stats.delta

TraceOf(st, channel) ==
    [starttime |-> st.stats.starttime, delta |-> st.stats.delta,
     data |-> st.data[channel]]

\* Stream.slice(start, end): every trace sliced, the empty ones dropped
stream_slice(st, start, end) ==
    LET kept == {c \in DOMAIN st.data :
                    ALen(slice(TraceOf(st, c), start, end).data) > 0}
        any == CHOOSE c \in kept : TRUE
    IN  IF kept = {} THEN [stats |-> st.stats, data |-> <<>>]
        ELSE [stats |-> [st.stats EXCEPT
                  !.starttime = slice(TraceOf(st, any), start, end).starttime,
                  !.npts = ALen(slice(TraceOf(st, any), start, end).data)],
              data |-> [c \in kept |-> slice(TraceOf(st, c), start, end).data]]

\* _check_month: TRUE when it raises
_check_month(starttime, endtime) ==
    LET end == endtime + 60
    IN  (Month(end) - Month(starttime) # 1) \/ (Day(end) # 1)

_get_channels(chans, st) ==
    IF chans # None THEN chans
    ELSE IF "H" \in DOMAIN st.data THEN H_CHANNELS
    ELSE IF "X" \in DOMAIN st.data THEN X_CHANNELS
    ELSE None

\* [raised, value]
_get_channels_headers(chans, stats) ==
    IF "channels" \in DOMAIN stats
    THEN [raised |-> FALSE, value |-> stats.channels]
    ELSE IF chans # None
         THEN [raised |-> FALSE, value |-> chans]
         ELSE [raised |-> TRUE, value |-> None]

\* str(n) for n >= 0, of at least width digits
Digit(n) == <<"0", "1", "2", "3", "4", "5", "6", "7", "8", "9">>[n + 1]

RECURSIVE Digits(_, _)
Digits(n, width) ==
    IF n < 10 /\ width <= 1 THEN <<Digit(n)>>
    ELSE Digits(n \div 10, width - 1) \o <<Digit(n % 10)>>

_get_publication_date(w) ==
    Digits((Year(w.now) % 100) * 100 + Month(w.now), 1)

\* int('%04d%03d' % (starttime.year, starttime.day))
_get_record_date(starttime) == Year(starttime) * 1000 + Day(starttime)

_get_version(w, version) == IF version # 0 THEN version ELSE w.version

_get_slice(st, starttime, day) ==
    LET start == starttime + day * 86400
        end == start + 86340
    IN  stream_slice(st, start, end)

\* int(float(x) * 1000) of a stats text x holding a number of thousandths
IntOfThousandths(x) == x.str.num

\* _fill_headers: [raised, headers]
_fill_headers(w, stats, chans, starttime) ==
    LET ch == _get_channels_headers(chans, stats)
        before == [station |-> rjust(stats.station, 4),
                   date |-> _get_record_date(starttime),
                   geodetic_latitude |-> IntOfThousandths(stats.geodetic_latitude),
                   geodetic_longitude |-> IntOfThousandths(stats.geodetic_longitude),
                   elevation |-> stats.elevation.str]
        after == [channels |-> ch.value,
                  agency_name |-> stats.agency_name,
                  d_conversion |-> stats.d_conversion,
                  data_quality |-> stats.data_quality,
                  instrumentation |-> stats.instrumentation,
                  k_9 |-> stats.k_9,
                  sensor_sampling_rate |-> stats.sensor_sampling_rate.num,
                  sensor_orientation |-> stats.sensor_orientation,
                  publication_date |-> _get_publication_date(w),
                  version |-> _get_version(w, stats.version),
                  empty |-> 0]
    IN  IF ch.raised
        THEN [raised |-> TRUE, headers |-> DictUpdate(w.headers, before)]
        ELSE [raised |-> FALSE,
              headers |-> DictUpdate(DictUpdate(w.headers, before), after)]

\* the integers written for the minute samples of a channel: times 10, NaN
\* to EIGHTS for an all NaN G, else to NINES, then astype(int)
MinuteValues(channel, data) ==
    LET allNan == ALen(data) = ANanCount(data)
    IN  ARuns([k \in DOMAIN data |->
            <<data[k][1],
              IF isnan(data[k][2])
              THEN IF channel = "G" /\ allNan THEN <<EIGHTS>> ELSE <<NINES>>
              ELSE <<TruncDiv(10 * data[k][2][1], 100)>>>>])

\* the first loop of _fill_data from cnt on; acc is [raised, data]
RECURSIVE FillMinutes(_, _, _, _)
FillMinutes(st, chans, cnt, acc) ==
    IF acc.raised # "" \/ cnt >= 4 \/ cnt >= Len(chans) THEN acc
    ELSE IF chans[cnt + 1] \notin DOMAIN st.data
         THEN [raised |-> "TimeseriesFactoryException: channel is required",
               data |-> acc.data]
         ELSE FillMinutes(st, chans, cnt + 1,
                  [raised |-> "",
                   data |-> AConcat(acc.data,
                               MinuteValues(chans[cnt + 1],
                                            st.data[chans[cnt + 1]]))])

\* (average * 10).astype(int) and average.astype(int) of a statistics
\* average
AverageTimes10AsInt(average, cast) ==
    IF isnan(average) THEN cast
    ELSE <<TruncDiv(10 * average[1], 100 * average[2])>>

AverageAsInt(average, cast) ==
    IF isnan(average) THEN cast
    ELSE <<TruncDiv(average[1], 100 * average[2])>>

\* the 24 integers written for the hours of a channel
HourValues(channel, hours, cast) ==
    IF channel = "G" THEN <<<<24, <<NINES>>>>>>
    ELSE ARuns([hour \in 1..24 |->
            <<1, AverageTimes10AsInt(hours[hour].statistics.average, cast)>>])

\* the second loop of _fill_data from cnt on
RECURSIVE FillHours(_, _, _, _, _)
FillHours(st, chans, cnt, acc, cast) ==
    IF acc.raised # "" \/ cnt >= 4 \/ cnt >= Len(chans) THEN acc
    ELSE LET channel == chans[cnt + 1]
             hours == get_traces(TraceOf(st, channel), "hours")
         IN  IF channel # "G" /\ Len(hours) < 24
             THEN [raised |-> "IndexError", data |-> acc.data]
             ELSE FillHours(st, chans, cnt + 1,
                      [raised |-> "",
                       data |-> AConcat(acc.data,
                                        HourValues(channel, hours, cast))],
                      cast)

\* the third loop of _fill_data from cnt on: get_traces is called without
\* an interval, so with its default, 'hours'
RECURSIVE FillDays(_, _, _, _, _)
FillDays(st, chans, cnt, acc, cast) ==
    IF acc.raised # "" \/ cnt >= 4 \/ cnt >= Len(chans) THEN acc
    ELSE LET channel == chans[cnt + 1]
             days == get_traces(TraceOf(st, channel), "hours")
         IN  IF Len(days) < 1
             THEN [raised |-> "IndexError", data |-> acc.data]
             ELSE FillDays(st, chans, cnt + 1,
                      [raised |-> "",
                       data |-> AConcat(acc.data,
                           <<<<1, AverageAsInt(days[1].statistics.average,
                                               cast)>>>>)],
                      cast)

\* data[0:8].astype(int) of the K trace; the assignment of NINES that
\* follows finds no NaN in an array of integers
KValues(data, cast) ==
    LET first == ASlice(data, 0, 8)
    IN  ARuns([k \in DOMAIN first |->
            <<first[k][1],
              IF isnan(first[k][2]) THEN cast
              ELSE <<TruncDiv(first[k][2][1], 100)>>>>])

\* the end of _fill_data: the K values and the four reserved integers
FillK(st, acc, cast) ==
    IF acc.raised # "" THEN acc
    ELSE IF "K" \notin DOMAIN st.data
         THEN [raised |-> "IndexError", data |-> acc.data]
         ELSE [raised |-> "",
               data |-> AConcat(AConcat(acc.data,
                                        KValues(st.data["K"], cast)),
                                <<<<4, <<0>>>>>>)]

\* _fill_data on the day's slice st: [raised, data], data what self.data
\* holds when it ends
FillSlice(st, chans, cast) ==
    IF st.data = <<>> THEN [raised |-> "IndexError", data |-> <<>>]
    ELSE IF chans = None THEN [raised |-> "TypeError", data |-> <<>>]
    ELSE FillK(st,
             FillDays(st, chans, 0,
                 FillHours(st, chans, 0,
                     FillMinutes(st, chans, 0, [raised |-> "", data |-> <<>>]),
                     cast),
                 cast),
             cast)

_fill_data(timeseries, chans, starttime, day, cast) ==
    FillSlice(_get_slice(timeseries, starttime, day), chans, cast)

\* the tuple struct.pack is given by _write
PackArgs(w) ==
    [header |-> <<w.headers.station, w.headers.date,
                  w.headers.geodetic_latitude, w.headers.geodetic_longitude,
                  w.headers.elevation, w.headers.channels,
                  w.headers.agency_name, w.headers.d_conversion,
                  w.headers.data_quality, w.headers.instrumentation,
                  w.headers.k_9, w.headers.sensor_sampling_rate,
                  w.headers.sensor_orientation, w.headers.publication_date,
                  w.headers.version, 0>>,
     data |-> w.data]

\* struct.pack raises struct.error unless it is given as many values as
\* IAFSTRING has fields, every integer one of 32 bits
PackRaises(args) ==
    \/ calcsize(Len(args.header), ALen(args.data)) # REC_LENGTH
    \/ \E x \in AElems(args.data) : Len(x) # 1

\* IAFWriter.__init__
NewWriter(now) ==
    [headers |-> [data_type |-> "definitive"],
     data |-> <<>>,
     now |-> now,
     version |-> 3]

\* write, up to its loop
WriteBegin ==
    /\ wpc = "start"
    /\ LET starttime == wTimeseries.stats.starttime
           endtime == StreamEnd(wTimeseries)
       IN  IF _check_month(starttime, endtime)
           THEN /\ wpc' = "raised"
                /\ wday' = [day |-> 0, num_of_days |-> 0, channels |-> None,
                            error |-> "TimeseriesFactoryException: month"]
           ELSE /\ wpc' = "loop"
                /\ wday' = [day |-> 0,
                            num_of_days |->
                                Julday(endtime + 60) - Julday(starttime),
                            channels |-> _get_channels(wChannels, wTimeseries),
                            error |-> ""]
    /\ UNCHANGED <<wTimeseries, wChannels, nanCast, wOut, writer>>
    /\ UNCHANGED <<rawData, pInterval, parser, ppc, pday>>
    /\ UNCHANGED <<tInput, tResult, tpc>>
    /\ UNCHANGED <<gfArgs, gfStream, gfpc>>
    /\ UNCHANGED <<gapVars, ctlVars>>

\* one iteration of the loop of write: _fill_headers, _fill_data, _write
WriteDay ==
    /\ wpc = "loop"
    /\ wday.day < wday.num_of_days
    /\ LET starttime == wTimeseries.stats.starttime
           fh == _fill_headers(writer, wTimeseries.stats, wday.channels,
                               starttime + wday.day * 86400)
           w1 == [writer EXCEPT !.headers = fh.headers]
           fd == _fill_data(wTimeseries, wday.channels, starttime, wday.day,
                            nanCast)
           w2 == [w1 EXCEPT !.data = fd.data]
       IN  IF fh.raised
           THEN /\ writer' = w1
                /\ wpc' = "raised"
                /\ wday' = [wday EXCEPT
                       !.error = "TimeseriesFactoryException: channels"]
                /\ UNCHANGED wOut
           ELSE IF fd.raised # ""
           THEN /\ writer' = w2
                /\ wpc' = "raised"
                /\ wday' = [wday EXCEPT !.error = fd.raised]
                /\ UNCHANGED wOut
           ELSE IF PackRaises(PackArgs(w2))
           THEN /\ writer' = w2
                /\ wpc' = "raised"
                /\ wday' = [wday EXCEPT !.error = "struct.error"]
                /\ UNCHANGED wOut
           ELSE /\ writer' = w2
                /\ wOut' = Append(wOut, PackArgs(w2))
                /\ wday' = [wday EXCEPT !.day = @ + 1]
                /\ UNCHANGED wpc
    /\ UNCHANGED <<wTimeseries, wChannels, nanCast>>
    /\ UNCHANGED <<rawData, pInterval, parser, ppc, pday>>
    /\ UNCHANGED <<tInput, tResult, tpc>>
    /\ UNCHANGED <<gfArgs, gfStream, gfpc>>
    /\ UNCHANGED <<gapVars, ctlVars>>

\* the end of the loop of write
WriteEnd ==
    /\ wpc = "loop"
    /\ wday.day >= wday.num_of_days
    /\ wpc' = "done"
    /\ UNCHANGED <<wTimeseries, wChannels, nanCast, wOut, writer, wday>>
    /\ UNCHANGED <<rawData, pInterval, parser, ppc, pday>>
    /\ UNCHANGED <<tInput, tResult, tpc>>
    /\ UNCHANGED <<gfArgs, gfStream, gfpc>>
    /\ UNCHANGED <<gapVars, ctlVars>>

\* The file written is read again: parse_string hands its content to a new
\* parser.
ReadBack ==
    /\ wpc = "done"
    /\ wpc' = "read"
    /\ rawData' = [records |-> wOut, trailing |-> 0]
    /\ pInterval' = "minute"
    /\ parser' = NewParser
    /\ ppc' = "start"
    /\ pday' = <<>>
    /\ UNCHANGED <<wTimeseries, wChannels, nanCast, wOut, writer, wday>>
    /\ UNCHANGED <<tInput, tResult, tpc>>
    /\ UNCHANGED <<gfArgs, gfStream, gfpc>>
    /\ UNCHANGED <<gapVars, ctlVars>>

\* ------------------------------------------------ the writer's specification
\* The first second of a month and of the month after it.
MonthStart(y, m) == UTCDateTimeDate(y, m, 1)
NextMonthStart(y, m) ==
    IF m = 12 THEN UTCDateTimeDate(y + 1, 1, 1) ELSE UTCDateTimeDate(y, m + 1, 1)

\* The windows <<time of first sample, time of last sample>> of the streams
\* written: whole months (a February of 28 and one of 29 days, a December),
\* and windows that are no whole month.
WriteWindows ==
    {<<MonthStart(y, m), NextMonthStart(y, m) - 60>> :
        <<y, m>> \in {<<2014, 1>>, <<2014, 2>>, <<2014, 11>>, <<2014, 12>>,
                      <<2016, 2>>}}
    \cup {<<UTCDateTimeDate(2014, 1, 15), MonthStart(2014, 2) - 60>>,
          <<MonthStart(2014, 1), UTCDateTimeDate(2014, 1, 31) - 60>>,
          <<MonthStart(2014, 1), MonthStart(2014, 3) - 60>>,
          <<MonthStart(2014, 1), MonthStart(2015, 2) - 60>>,
          <<MonthStart(2014, 1), MonthStart(2014, 2) + 43200 - 60>>}

\* The arrays of a trace of n >= 1440 samples, values in hundredths.
HData(n) ==
    <<<<<<n, <<109>>>>>>,
      <<<<n, <<-250>>>>>>,
      <<<<60, <<100>>>>, <<n - 60, <<300>>>>>>,
      <<<<30, NaN>>, <<n - 30, <<250>>>>>>,
      <<<<60, NaN>>, <<n - 60, <<250>>>>>>,
      <<<<1440, NaN>>, <<n - 1440, <<250>>>>>>>>

GData(n) ==
    <<<<<<n, NaN>>>>,
      <<<<n, <<5>>>>>>,
      <<<<30, NaN>>, <<n - 30, <<5>>>>>>>>

KData(n) ==
    <<<<<<n, <<300>>>>>>,
      <<<<3, <<300>>>>, <<2, NaN>>, <<n - 5, <<500>>>>>>>>

\* The calls of write, <<window, H array, G array, K array, channels>>:
\* every window with arrays without NaN, and February 2014 with every
\* choice of arrays.
WriteInputs ==
    {<<w, 3, 2, 1, chans>> : w \in WriteWindows, chans \in {None, H_CHANNELS}}
    \cup {<<<<MonthStart(2014, 2), MonthStart(2014, 3) - 60>>, hi, gi, ki, None>> :
            hi \in 1..6, gi \in 1..3, ki \in 1..2}

WriteStats(window) ==
    [starttime |-> window[1],
     delta |-> 60,
     npts |-> (window[2] - window[1]) \div 60 + 1,
     station |-> <<"B", "O", "U">>,
     geodetic_latitude |-> StrOf(Thousandth(40137)),
     geodetic_longitude |-> StrOf(Thousandth(254763)),
     elevation |-> StrOf(1682),
     agency_name |-> <<"U", "S", "G", "S">>,
     d_conversion |-> 10000,
     data_quality |-> <<"I", "M", "A", "G">>,
     instrumentation |-> <<"F", "G", "E", " ">>,
     k_9 |-> 500,
     sensor_sampling_rate |-> Thousandth(100),
     sensor_orientation |-> <<"H", "D", "Z", "F">>,
     version |-> 0]

WriteStream(input) ==
    LET stats == WriteStats(input[1])
        n == stats.npts
    IN  [stats |-> stats,
         data |-> [c \in {"H", "D", "Z", "G", "K"} |->
                      CASE c = "H" -> HData(n)[input[2]]
                        [] c = "D" -> <<<<n, <<1234>>>>>>
                        [] c = "Z" -> <<<<n, <<4000>>>>>>
                        [] c = "G" -> GData(n)[input[3]]
                        [] c = "K" -> KData(n)[input[4]]]]

WriteInit ==
    /\ \E input \in WriteInputs :
        /\ wTimeseries = WriteStream(input)
        /\ wChannels = input[5]
    /\ nanCast \in NanCastChoices
    /\ wOut = <<>>
    /\ writer = NewWriter(MonthStart(2015, 3))
    /\ wpc = "start"
    /\ wday = <<>>
    /\ ParserUnused
    /\ TracesUnused
    /\ CleanUnused
    /\ CtlUnused
    /\ stream = <<>>
    /\ gaps = <<>>
    /\ merged_gaps = <<>>
    /\ gpc = "unused"

WriteNext ==
    \/ WriteBegin
    \/ WriteDay
    \/ WriteEnd
    \/ ReadBack
    \/ ParseBegin
    \/ ParseRecord
    \/ PostProcess

SpecWrite == WriteInit /\ [][WriteNext]_vars

\* ----------------------------------------------------------- writer claims
\* the samples of a channel in day k = 1, 2, .. of the window written, and
\* the groups of a record
DayOf(channel, k) ==
    ASlice(wTimeseries.data[channel], 1440 * (k - 1), 1440 * k)

MinuteGroup(rec, c) == RecordSlice(rec, 16 + 1440 * c, 16 + 1440 * (c + 1))
HourGroup(rec, c) == RecordSlice(rec, 5776 + 24 * c, 5776 + 24 * (c + 1))
DayGroup(rec, c) == RecordSlice(rec, 5872 + c, 5872 + c + 1)
KGroup(rec) == RecordSlice(rec, 5876, 5884)

MonthError == "TimeseriesFactoryException: month"

\* the whole days from the first sample to one minute after the last
DaysOfWindow ==
    (StreamEnd(wTimeseries) + 60 - wTimeseries.stats.starttime) \div 86400

\* C12: for every day of the window written exactly one block of exactly
\* 23552 bytes (16 header fields, then 4x1440 + 4x24 + 4x1 + 8 + 4
\* integers) is emitted, whatever samples of the day are missing: a write
\* that passed the month check ends with (number of days) x 23552 bytes.
C12_OneBlockPerDay ==
    /\ \A k \in 1..Len(wOut) :
        /\ Len(wOut[k].header) = 16
        /\ ALen(wOut[k].data) = 4 * 1440 + 4 * 24 + 4 * 1 + 8 + 4
        /\ calcsize(Len(wOut[k].header), ALen(wOut[k].data)) = 23552
    /\ wpc = "raised" => wday.error = MonthError
    /\ wpc \in {"done", "read"} => Len(wOut) = DaysOfWindow

\* C13: on encode every missing minute sample is written as 999999, or as
\* 888888 when its channel is entirely missing for that day; a missing K
\* sample is written as 999.
C13_EncodeSentinels ==
    \A k \in 1..Len(wOut) :
        /\ \A c \in 0..3 :
            LET src == DayOf(wday.channels[c + 1], k)
                allNan == ANanCount(src) = ALen(src)
            IN  \A pr \in AZip(src, MinuteGroup(wOut[k], c)) :
                    isnan(pr[1]) =>
                        pr[2] = IF allNan THEN <<888888>> ELSE <<999999>>
        /\ \A pr \in AZip(ASlice(DayOf("K", k), 0, 8), KGroup(wOut[k])) :
            isnan(pr[1]) => pr[2] = <<999>>

\* the series written has no missing sample
NoMissing ==
    \A c \in DOMAIN wTimeseries.data : ANanCount(wTimeseries.data[c]) = 0

\* C15: for a minute series with no missing samples, decoding the bytes
\* produced by encoding it gives, for every x10-scaled channel and every
\* sample, a value within 0.05 of the original.
C15_RoundTripWithinHalfTenth ==
    (wpc = "read" /\ ppc = "done" /\ NoMissing) =>
        \A c \in 0..3 :
            LET channel == wday.channels[c + 1]
                orig == ASlice(wTimeseries.data[channel], 0, 1440 * Len(wOut))
                dec == parser.data[channel]
            IN  /\ ALen(dec) = ALen(orig)
                /\ \A pr \in AZip(orig, dec) :
                    /\ ~isnan(pr[2])
                    /\ pr[2][1] - pr[1][1] <= 5
                    /\ pr[1][1] - pr[2][1] <= 5

\* the window is one calendar month: from the first minute of the 1st to
\* one minute before the 1st of the next month
IsFullMonth(starttime, endtime) ==
    /\ Day(starttime) = 1
    /\ starttime % 86400 = 0
    /\ endtime + 60 = NextMonthStart(Year(starttime), Month(starttime))

\* C16: write accepts a series exactly when it spans one full calendar
\* month (December included), and raises the incomplete-window error
\* before writing any record for every other window.
C16_AcceptsExactlyFullMonths ==
    wpc \in {"loop", "done", "read", "raised"} =>
        /\ (wday.error = MonthError) <=>
               ~IsFullMonth(wTimeseries.stats.starttime, StreamEnd(wTimeseries))
        /\ wday.error = MonthError => wOut = <<>>

\* |v - num / den| < 1 for the integer written v = <<v>>
WithinOne(v, num, den) ==
    /\ Len(v) = 1
    /\ v[1] * den - num < den
    /\ num - v[1] * den < den

\* the value the claim gives the mean of the samples src, times 10
IsTenTimesMean(v, src) ==
    IF ANanCount(src) = ALen(src) THEN v = <<999999>>
    ELSE WithinOne(v, 10 * ANanSum(src), 100 * (ALen(src) - ANanCount(src)))

\* C18: in every day record written, for every channel other than G, each
\* of the 24 hourly values is 10 times the mean of the non-missing minute
\* samples of that hour and the daily value is 10 times the mean of those
\* of the whole day (to the integer written); a sub-interval whose samples
\* are all missing gives the missing sentinel.
C18_HourAndDayMeans ==
    \A k \in 1..Len(wOut), c \in 0..3 :
        wday.channels[c + 1] # "G" =>
            LET src == DayOf(wday.channels[c + 1], k)
            IN  /\ \A hour \in 0..23 :
                    IsTenTimesMean(AAt(HourGroup(wOut[k], c), hour),
                                   ASlice(src, 60 * hour, 60 * (hour + 1)))
                /\ IsTenTimesMean(AAt(DayGroup(wOut[k], c), 0), src)

\* C19: the date in the header of the record of a day is YYYYddd, ddd the
\* day of the year, so that reading it as year + day of year gives the same
\* calendar day.
C19_RecordDateRoundTrip ==
    \A k \in 1..Len(wOut) :
        LET dayStart == wTimeseries.stats.starttime + (k - 1) * 86400
            date == wOut[k].header[2]
        IN  /\ date = Year(dayStart) * 1000 + Julday(dayStart)
            /\ UTCDateTimeString(date) = (dayStart \div 86400) * 86400

\* ------------------------------------------------- get_traces, on its own
\* get_traces(trace, interval)
GetTraces ==
    /\ tpc = "start"
    /\ tResult' = get_traces(tInput.trace, tInput.interval)
    /\ tpc' = "done"
    /\ UNCHANGED tInput
    /\ UNCHANGED <<gfArgs, gfStream, gfpc>>
    /\ UNCHANGED <<wTimeseries, wChannels, nanCast, wOut, writer, wpc, wday>>
    /\ UNCHANGED <<rawData, pInterval, parser, ppc, pday>>
    /\ UNCHANGED <<gapVars, ctlVars>>

\* The traces get_traces is given: they start at midnight, at half past
\* midnight, at 23:00 and at noon of the last day of a month; they have a
\* sample every second or every minute; they span one sample, half an
\* hour, a complete hour, an hour and one sample, two hours and a half, a
\* complete day, a day and a half.
TraceStarts ==
    {0, 1800, 82800, UTCDateTimeDate(2014, 1, 31) + 43200}

TraceDeltas == {1, 60}

TraceSpans == {0, 1800, 3600, 9000, 86400, 129600}

TraceNpts(delta) ==
    {1, 3600 \div delta + 1} \cup {sp \div delta : sp \in TraceSpans \ {0}}

TraceData(n) ==
    {<<<<n, <<100>>>>>>,
     ASlice(<<<<1, NaN>>, <<200000, <<100>>>>>>, 0, n),
     ASlice(<<<<2700, <<100>>>>, <<200000, <<300>>>>>>, 0, n)}

TraceInputs ==
    UNION {[trace : [starttime : {st}, delta : {d}, data : TraceData(n)],
            interval : {"hours", "days", "months"}] :
              <<st, d, n>> \in UNION {{<<st, d, n>> : n \in TraceNpts(d)} :
                                        <<st, d>> \in TraceStarts \X TraceDeltas}}

TracesInit ==
    /\ tInput \in TraceInputs
    /\ tResult = <<>>
    /\ tpc = "start"
    /\ WriterUnused
    /\ ParserUnused
    /\ CleanUnused
    /\ CtlUnused
    /\ stream = <<>>
    /\ gaps = <<>>
    /\ merged_gaps = <<>>
    /\ gpc = "unused"

TracesNext == GetTraces

SpecTraces == TracesInit /\ [][TracesNext]_vars

\* ------------------------------------------------------ get_traces claims
\* the index in the trace given of the first and of the last sample of the
\* k-th sub-interval returned, and the time of the sample of index i
FirstIndex(k) ==
    (tResult[k].starttime - tInput.trace.starttime) \div tInput.trace.delta

LastIndex(k) == FirstIndex(k) + ALen(tResult[k].data) - 1

TimeOfIndex(i) == tInput.trace.starttime + i * tInput.trace.delta

\* seconds in a sub-interval of get_traces' interval
IntervalSeconds == IF tInput.interval = "hours" THEN 3600 ELSE 86400

\* C20: get_traces(trace, 'hours' or 'days') cuts the trace at the calendar
\* hour (day) boundaries: whatever the start time, the end time and the
\* sampling period of the trace, its sub-intervals follow each other, every
\* sample of the trace is in exactly one of them (the first sub-interval
\* starts at the first sample, each next one at the sample after the last
\* of the one before, the last one ends at the last sample), the samples
\* of one sub-interval are those of one calendar hour (day), a last, partial
\* sub-interval is there too, and the statistics of each are those of the
\* samples in it.
C20_TracesPartitionSamples ==
    (tpc = "done" /\ tInput.interval \in {"hours", "days"}) =>
        LET n == ALen(tInput.trace.data)
            m == Len(tResult)
        IN  /\ m >= 1
            /\ FirstIndex(1) = 0
            /\ LastIndex(m) = n - 1
            /\ \A k \in 1..m : ALen(tResult[k].data) >= 1
            /\ \A k \in 1..(m - 1) : FirstIndex(k + 1) = LastIndex(k) + 1
            /\ \A k \in 1..m :
                 TimeOfIndex(FirstIndex(k)) \div IntervalSeconds
                     = TimeOfIndex(LastIndex(k)) \div IntervalSeconds
            /\ \A k \in 1..(m - 1) :
                 TimeOfIndex(LastIndex(k)) \div IntervalSeconds
                     < TimeOfIndex(FirstIndex(k + 1)) \div IntervalSeconds
            /\ \A k \in 1..m :
                 tResult[k].statistics
                     = statistics(ASlice(tInput.trace.data, FirstIndex(k),
                                         LastIndex(k) + 1))

\* --------------------------------------------------- gap engine: purity
\* C21: get_merged_gaps is pure.  After it returned, the dictionary it was
\* given holds, for every channel, the gap list it held before the call,
\* every gap [start, end, next sample] unchanged; so a second call on the
\* same dictionary, iterated in any order, returns the list the first call
\* returned.
C21_MergeLeavesInputUnchanged ==
    gpc = "merged" =>
        /\ gaps = FreshGaps
        /\ \A keyOrder \in KeyOrders(DOMAIN gaps) :
             get_merged_gaps(gaps, keyOrder).merged = merged_gaps

\* ------------------------------------------ IAFFactory._clean_G_F_channels
\* A stream is a list of traces [channel, data], data a sequence of samples
\* (NaN or <<v>>).  A version is kept in tenths: 10 is 1.0, 11 is 1.1.

\* stream.select(channel=c)
select(st, c) == SelectSeq(st, LAMBDA tr : tr.channel = c)

\* stream.remove(tr): the first trace equal to tr leaves the list
remove(st, tr) ==
    LET i == CHOOSE i \in DOMAIN st :
                 st[i] = tr /\ \A j \in 1..(i - 1) : st[j] # tr
    IN  SubSeq(st, 1, i - 1) \o SubSeq(st, i + 1, Len(st))

\* for tr in trs: stream.remove(tr)
RECURSIVE RemoveEach(_, _)
RemoveEach(st, trs) ==
    IF trs = <<>> THEN st ELSE RemoveEach(remove(st, Head(trs)), Tail(trs))

\* the square root of a square, else rounded down
Sqrt(n) == CHOOSE r \in 0..n : r * r <= n /\ n < (r + 1) * (r + 1)

\* ChannelConverter.get_computed_f_using_squares(x, y, z): the length of
\* the vector (x, y, z) at every sample, missing where a component is
\* missing
get_computed_f_using_squares(x, y, z) ==
    [i \in DOMAIN x |->
        IF isnan(x[i]) \/ isnan(y[i]) \/ isnan(z[i]) THEN NaN
        ELSE <<Sqrt(x[i][1] * x[i][1] + y[i][1] * y[i][1] + z[i][1] * z[i][1])>>]

\* numpy.subtract(a, b)
subtract(a, b) ==
    [i \in DOMAIN a |->
        IF isnan(a[i]) \/ isnan(b[i]) THEN NaN ELSE <<a[i][1] - b[i][1]>>]

\* StreamConverter._get_trace(channel, stats, data)
_get_trace(channel, data) == [channel |-> channel, data |-> data]

\* the scalar 0 given for y, as numpy broadcasts it over x
Broadcast0(x) == [i \in DOMAIN x |-> <<0>>]

\* the branch of _clean_G_F_channels for version >= 2 and XYZG or HDZG.
\* In the loop, deltaf[0] is the first sample of the trace, a number, and
\* deltaf[0][value] indexes that number: IndexError, at the first sample
\* where deltaf is missing and fv is not.
CleanDeltaF(code, st) ==
    LET z == select(st, "Z")[1].data
        fv == IF code = <<"X", "Y", "Z", "G">>
              THEN get_computed_f_using_squares(select(st, "X")[1].data,
                                                select(st, "Y")[1].data, z)
              ELSE get_computed_f_using_squares(select(st, "H")[1].data,
                                                Broadcast0(z), z)
        deltaf == select(st, "G")[1].data
        fs == subtract(fv, deltaf)
    IN  IF \E value \in DOMAIN fv : isnan(deltaf[value]) /\ ~isnan(fv[value])
        THEN [stream |-> st, raised |-> "IndexError"]
        ELSE [stream |-> st \o <<_get_trace("F", fs)>>, raised |-> ""]

\* _clean_G_F_channels(version, channels, stream) of a factory whose
\* _version1_flag is flag: the stream as the call leaves it, and what it
\* raised
_clean_G_F_channels(ver, code, flag, st) ==
    IF (ver >= 10 /\ ver < 11) /\ flag
    THEN [stream |-> RemoveEach(st, select(st, "F")), raised |-> ""]
    ELSE IF ver >= 20 /\ (code = <<"X", "Y", "Z", "G">>
                          \/ code = <<"H", "D", "Z", "G">>)
    THEN CleanDeltaF(code, st)
    ELSE [stream |-> st, raised |-> ""]

CleanGF ==
    /\ gfpc = "start"
    /\ LET r == _clean_G_F_channels(gfArgs.version, gfArgs.channels,
                                    gfArgs.version1_flag, gfStream)
       IN  /\ gfStream' = r.stream
           /\ gfpc' = IF r.raised = "" THEN "done" ELSE "raised"
    /\ UNCHANGED gfArgs
    /\ UNCHANGED <<wTimeseries, wChannels, nanCast, wOut, writer, wpc, wday>>
    /\ UNCHANGED <<rawData, pInterval, parser, ppc, pday>>
    /\ UNCHANGED <<tInput, tResult, tpc>>
    /\ UNCHANGED <<gapVars, ctlVars>>

\* ---------------------------------------- _clean_G_F_channels, on its own
\* The versions (in tenths), below 1.0, 1.0, 1.1, between 1.1 and 2.0, 2.0
\* and above; the channel codes of a header (4 characters).
GfVersions == {0, 10, 11, 15, 20, 21}

GfCodes ==
    {<<"X", "Y", "Z", "G">>, <<"H", "D", "Z", "G">>, <<"H", "D", "Z", "F">>,
     <<"X", "Y", "Z", "F">>, <<"H", "D", "Z", " ">>}

\* samples of a channel in the stream of two samples parse_string built
GfData(channel) ==
    CASE channel = "X" -> {<<<<2>>, <<2>>>>, <<NaN, <<2>>>>}
      [] channel = "H" -> {<<<<8>>, <<8>>>>, <<NaN, <<8>>>>}
      [] channel = "Y" -> {<<<<3>>, <<3>>>>}
      [] channel = "D" -> {<<<<1>>, <<1>>>>}
      [] channel = "Z" -> {<<<<6>>, <<6>>>>}
      [] channel = "K" -> {<<<<3>>, <<3>>>>}
      [] OTHER -> [1..2 -> {NaN, <<1>>}]

\* the streams parse_string builds for a channel code: one trace for each
\* of the channels _parse_channels names
GfStreams(code) ==
    LET chans == _parse_channels([headers |-> [channels |-> code],
                                  channels |-> <<>>]).channels
    IN  {st \in [1..Len(chans) -> UNION {[channel : {c}, data : GfData(c)] :
                                           c \in Range(chans)}] :
            \A i \in 1..Len(chans) : st[i].channel = chans[i]}

GfInit ==
    /\ \E ver \in GfVersions, code \in GfCodes, flag \in BOOLEAN :
         \E st \in GfStreams(code) :
            /\ gfArgs = [version |-> ver, channels |-> code,
                         version1_flag |-> flag, stream |-> st]
            /\ gfStream = st
    /\ gfpc = "start"
    /\ WriterUnused
    /\ ParserUnused
    /\ TracesUnused
    /\ CtlUnused
    /\ stream = <<>>
    /\ gaps = <<>>
    /\ merged_gaps = <<>>
    /\ gpc = "unused"

GfNext == CleanGF

SpecClean == GfInit /\ [][GfNext]_vars

\* ------------------------------------------- _clean_G_F_channels claims
\* the stream before the call without its 4th channel
WithoutFourth ==
    SelectSeq(gfArgs.stream, LAMBDA tr : tr.channel # gfArgs.channels[4])

\* C22: the reconciliation after decode is chosen by the version, the
\* channel code and the version 1 flag.  With a version in [1.0, 1.1) and
\* the flag set, the stream is left without its 4th channel; with a
\* version in [1.1, 2.0) it is left as it was; with a version >= 2.0 and
\* the code XYZG or HDZG a trace F is added, the trace G is still there
\* and the other traces are as they were; in every other case the stream
\* is left as it was.  In no case is anything raised.
C22_ReconciliationByVersion ==
    gfpc # "start" =>
        LET ver == gfArgs.version
            code == gfArgs.channels
        IN  /\ gfpc = "done"
            /\ IF ver >= 10 /\ ver < 11 /\ gfArgs.version1_flag
               THEN gfStream = WithoutFourth
               ELSE IF ver >= 11 /\ ver < 20
               THEN gfStream = gfArgs.stream
               ELSE IF ver >= 20 /\ code \in {<<"X", "Y", "Z", "G">>,
                                              <<"H", "D", "Z", "G">>}
               THEN /\ Len(select(gfStream, "F")) = 1
                    /\ Len(select(gfStream, "G")) = 1
                    /\ \A tr \in Range(gfArgs.stream) :
                         tr.channel # "G" => tr \in Range(gfStream)
               ELSE gfStream = gfArgs.stream

====
